---- MODULE Spec2Model ----
(***************************************************************************)
(* DeepCode document core: src/utils/file_processor.py (FileProcessor).    *)
(*                                                                         *)
(* Text is a sequence of code points (natural numbers), bytes are a        *)
(* sequence of byte values 0..255.  A section tree is an arena: the flat   *)
(* sequence of scanned sections plus, per section, the sequence of indices *)
(* of its subsections, and the sequence of root indices (the Python dicts  *)
(* are shared by reference between the flat list, the stack and the tree). *)
(***************************************************************************)
EXTENDS Integers, Sequences, FiniteSets, TLC

VARIABLES
    \* _organize_sections: its argument, loop position and locals
    sections, pos, result, section_stack, subsections, opc,
    \* parse_markdown_sections / standardize_output applied to a text
    content, parsed, standardized_text, reparsed, ppc,
    \* read_file_content: the file, the locals, the detector's answer, the
    \* encodings attempted, the number of open() calls, the number of handles
    \* open, and the outcome
    file_path, file_state, file_bytes, rpc, chardet, detected_encoding,
    encodings_to_try, unique_encodings, enc_idx, last_error, attempts, opens,
    open_handles, ret,
    \* process_file_input: the file system (directories, the files listed in
    \* each, the bytes a file holds), the arguments, the locals, whether a
    \* directory was scanned for a markdown file, the outcome, and the
    \* directories that existed when the call was made
    dirs, listing, doc, file_input, base_dir, paper_dir, fallback, response, ipc,
    dirs_before,
    \* concurrent callers: the locals of each process_file_input invocation;
    \* the module globals _global_logger and _default_service, the number of
    \* instances constructed for each, and each thread's position and result
    calls, global_logger, default_service, constructed, threads,
    \* find_markdown_file and extract_json_from_text called on their own:
    \* the arguments, the values returned and each call's position
    find_directory, find_result, json_text, json_result, hpc

varsOrganize == <<sections, pos, result, section_stack, subsections, opc>>
varsPipeline == <<content, parsed, standardized_text, reparsed, ppc>>
varsRead == <<file_path, file_state, file_bytes, rpc, chardet, detected_encoding,
              encodings_to_try, unique_encodings, enc_idx, last_error, attempts,
              opens, open_handles, ret>>
varsInput == <<dirs, listing, doc, file_input, base_dir, paper_dir, fallback, response,
               ipc, dirs_before>>
varsConcurrent == <<calls, global_logger, default_service, constructed, threads>>
varsHelpers == <<find_directory, find_result, json_text, json_result, hpc>>
vars == <<varsOrganize, varsPipeline, varsRead, varsInput, varsConcurrent, varsHelpers>>

----------------------------------------------------------------------------
\* Code points used by the code's literals.
NL == 10
SP == 32
HASH == 35
DASH == 45
EQ == 61
LA == 97
LB == 98

\* Bounds of the model.
MaxSections == 4
MaxLines == 3
MaxBody == 2
MaxEntries == 2

\* Python None where a string is expected.
None == "None"

\* current_section = None: no section is open (a section's level is 1..6).
NoSection == [level |-> 0, title |-> <<>>]

\* The value of a tree or text variable that has not been assigned yet.
NoTree == [flat |-> <<>>, result |-> <<>>, subsections |-> <<>>]

----------------------------------------------------------------------------
\* Generic sequence helpers.

Last(s) == s[Len(s)]
Front(s) == SubSeq(s, 1, Len(s) - 1)
Range(s) == {s[i] : i \in 1..Len(s)}
Repeat(c, n) == [i \in 1..n |-> c]

RECURSIVE Flatten(_)
Flatten(ss) == IF ss = <<>> THEN <<>> ELSE Head(ss) \o Flatten(Tail(ss))

\* All sequences over S of length at most n.
SeqsUpTo(S, n) == UNION {[1..k -> S] : k \in 0..n}

----------------------------------------------------------------------------
\* str methods and the heading regular expression.

\* Characters str.strip() removes and \s matches (ASCII range and Latin-1).
IsSpace(c) == c \in {9, 10, 11, 12, 13, 28, 29, 30, 31, 32, 133, 160}

\* content.split("\n")
Split(s) ==
    LET P == {i \in 1..Len(s) : s[i] = NL}
        n == Cardinality(P)
        \* position of the k-th newline; 0 and Len(s)+1 are the two ends
        At(k) == IF k = 0 THEN 0
                 ELSE IF k = n + 1 THEN Len(s) + 1
                 ELSE CHOOSE p \in P : Cardinality({q \in P : q < p}) = k - 1
    IN  [k \in 1..(n + 1) |-> SubSeq(s, At(k - 1) + 1, At(k) - 1)]

\* "\n".join(lines)
RECURSIVE Join(_)
Join(lines) ==
    IF lines = <<>> THEN <<>>
    ELSE IF Len(lines) = 1 THEN lines[1]
    ELSE lines[1] \o <<NL>> \o Join(Tail(lines))

\* str.strip()
Strip(s) ==
    LET K == {i \in 1..Len(s) : ~IsSpace(s[i])}
    IN  IF K = {} THEN <<>>
        ELSE SubSeq(s, CHOOSE i \in K : \A j \in K : i <= j,
                       CHOOSE i \in K : \A j \in K : j <= i)

\* re.match(r"^(#{1,6})\s+(.+)$", line) on one line of the split text, with
\* \s+ asking for at least min_ws characters.  h leading '#', then a run of w
\* whitespace characters, then the rest.  The expression matches iff
\* 1 <= h <= 6, w >= min_ws and either the rest is not empty (group 2 is the
\* rest) or w > min_ws (\s+ gives back its last character, which becomes
\* group 2).
RegexMatch(line, min_ws) ==
    LET n == Len(line)
        h == Cardinality({i \in 1..n : \A j \in 1..i : line[j] = HASH})
        w == Cardinality({i \in (h + 1)..n : \A j \in (h + 1)..i : IsSpace(line[j])})
        rest == SubSeq(line, h + w + 1, n)
        ok == /\ h >= 1
              /\ h <= 6
              /\ w >= min_ws
              /\ (rest # <<>> \/ w > min_ws)
              /\ \A i \in 1..n : line[i] # NL
    IN  IF ok
        THEN [matched |-> TRUE, level |-> h,
              group2 |-> IF rest # <<>> THEN rest ELSE <<line[n]>>]
        ELSE [matched |-> FALSE, level |-> 0, group2 |-> <<>>]

HeaderMatchLoose(line) == RegexMatch(line, 0)

HeaderMatch(line) == RegexMatch(line, 1)

----------------------------------------------------------------------------
\* _organize_sections

\* The loop condition of the pop: the stack's top is at the same or a deeper
\* level than the incoming section.
ShouldPopNever(top_level, level) == FALSE

ShouldPopStrict(top_level, level) == top_level > level

ShouldPopReversed(top_level, level) == top_level <= level

ShouldPop(top_level, level) == top_level >= level

\* while section_stack and section_stack[-1]["level"] >= section["level"]: pop
RECURSIVE PopStack(_, _, _)
PopStack(stack, secs, k) ==
    IF stack # <<>> /\ ShouldPop(secs[Last(stack)].level, secs[k].level)
    THEN PopStack(Front(stack), secs, k)
    ELSE stack

IsRootAlways(stack) == TRUE

\* "if section_stack: ... else: result.append(section)": the section is a
\* root when the stack is empty after the pops.
IsRoot(stack) == stack = <<>>

AddSubsectionFirst(subs, k) == <<k>> \o subs

\* section_stack[-1]["subsections"].append(section)
AddSubsection(subs, k) == Append(subs, k)

\* One iteration of "for section in sections" on the k-th section; st holds
\* the locals result and section_stack and the subsections lists.
OrganizeStep(st, secs, k) ==
    LET stk == PopStack(st.section_stack, secs, k)
    IN  [result |-> IF IsRoot(stk) THEN Append(st.result, k) ELSE st.result,
         subsections |-> IF stk # <<>>
                         THEN [st.subsections EXCEPT ![Last(stk)] = AddSubsection(@, k)]
                         ELSE st.subsections,
         section_stack |-> Append(stk, k)]

OrganizeStart(secs) ==
    [result |-> <<>>, subsections |-> [i \in 1..Len(secs) |-> <<>>],
     section_stack |-> <<>>]

RECURSIVE OrganizeLoop(_, _, _)
OrganizeLoop(st, secs, k) ==
    IF k > Len(secs) THEN st
    ELSE OrganizeLoop(OrganizeStep(st, secs, k), secs, k + 1)

\* The returned tree: the flat sections, the roots and the subsections lists.
OrganizeSections(secs) ==
    LET st == OrganizeLoop(OrganizeStart(secs), secs, 1)
    IN  [flat |-> secs, result |-> st.result, subsections |-> st.subsections]

----------------------------------------------------------------------------
\* parse_markdown_sections

CloseSectionUntrimmed(cur, lines) ==
    [level |-> cur.level, title |-> cur.title, content |-> Join(lines)]

\* Closing the open section: its content is the stripped join of its lines.
CloseSection(cur, lines) ==
    [level |-> cur.level, title |-> cur.title, content |-> Strip(Join(lines))]

AccumulateImplicit(sc, line) ==
    IF sc.current_section # NoSection
    THEN [sc EXCEPT !.current_content = Append(@, line)]
    ELSE [sc EXCEPT !.current_section = [level |-> 1, title |-> <<>>],
                    !.current_content = <<line>>]

\* elif current_section is not None: current_content.append(line)
Accumulate(sc, line) ==
    IF sc.current_section # NoSection
    THEN [sc EXCEPT !.current_content = Append(@, line)]
    ELSE sc

\* One iteration of "for line in lines".  sc holds sections, current_section
\* and current_content.
ScanLine(sc, line) ==
    LET m == HeaderMatch(line)
    IN  IF m.matched
        THEN [sections |-> IF sc.current_section # NoSection
                           THEN Append(sc.sections,
                                       CloseSection(sc.current_section, sc.current_content))
                           ELSE sc.sections,
              current_section |-> [level |-> m.level, title |-> Strip(m.group2)],
              current_content |-> <<>>]
        ELSE Accumulate(sc, line)

RECURSIVE ScanLoop(_, _, _)
ScanLoop(sc, lines, k) ==
    IF k > Len(lines) THEN sc
    ELSE ScanLoop(ScanLine(sc, lines[k]), lines, k + 1)

FlatSectionsDropLast(text) ==
    ScanLoop([sections |-> <<>>, current_section |-> NoSection,
              current_content |-> <<>>], Split(text), 1).sections

\* The flat sequence handed to _organize_sections.
FlatSections(text) ==
    LET sc == ScanLoop([sections |-> <<>>, current_section |-> NoSection,
                        current_content |-> <<>>], Split(text), 1)
    IN  IF sc.current_section # NoSection
        THEN Append(sc.sections, CloseSection(sc.current_section, sc.current_content))
        ELSE sc.sections

ParseMarkdownSections(text) == OrganizeSections(FlatSections(text))

----------------------------------------------------------------------------
\* format_section_content / standardize_output

SeparatorWidth == 80

NeedsRuleWithSubsections(section_content, subs) == subs # <<>>

\* if section["subsections"]: if section["content"]: formatted += "\n---\n"
NeedsRule(section_content, subs) == subs # <<>> /\ section_content # <<>>

\* A renderer that closes only the sections without subsections.
RECURSIVE FormatSeparatorAtLeaves(_, _)
FormatSeparatorAtLeaves(tree, i) ==
    LET s == tree.flat[i]
        subs == tree.subsections[i]
    IN  <<NL>> \o Repeat(HASH, s.level) \o <<SP>> \o s.title \o <<NL>>
            \o (IF s.content # <<>> THEN <<NL>> \o Strip(s.content) \o <<NL>> ELSE <<>>)
            \o (IF NeedsRule(s.content, subs) THEN <<NL, DASH, DASH, DASH, NL>> ELSE <<>>)
            \o Flatten([k \in 1..Len(subs) |-> FormatSeparatorAtLeaves(tree, subs[k])])
            \o (IF subs = <<>> THEN <<NL>> \o Repeat(EQ, SeparatorWidth) \o <<NL>> ELSE <<>>)

RECURSIVE FormatSectionContent(_, _)
FormatSectionContent(tree, i) ==
    LET s == tree.flat[i]
        subs == tree.subsections[i]
        title_part == <<NL>> \o Repeat(HASH, s.level) \o <<SP>> \o s.title \o <<NL>>
        content_part == IF s.content # <<>>
                        THEN <<NL>> \o Strip(s.content) \o <<NL>>
                        ELSE <<>>
        rule_part == IF NeedsRule(s.content, subs)
                     THEN <<NL, DASH, DASH, DASH, NL>>
                     ELSE <<>>
        subs_part == Flatten([k \in 1..Len(subs) |-> FormatSectionContent(tree, subs[k])])
    IN  title_part \o content_part \o rule_part \o subs_part
            \o <<NL>> \o Repeat(EQ, SeparatorWidth) \o <<NL>>

StandardizeOutput(tree) ==
    Join([k \in 1..Len(tree.result) |-> FormatSectionContent(tree, tree.result[k])])

----------------------------------------------------------------------------
\* Views of a tree.

\* The tree as nested (level, title) nodes: its shape without the contents.
RECURSIVE Shape(_, _)
Shape(tree, i) ==
    [level |-> tree.flat[i].level, title |-> tree.flat[i].title,
     subsections |-> [k \in 1..Len(tree.subsections[i]) |->
                        Shape(tree, tree.subsections[i][k])]]

TreeShape(tree) == [k \in 1..Len(tree.result) |-> Shape(tree, tree.result[k])]

\* Depth-first pre-order sequence of section indices.
RECURSIVE PreOrder(_, _)
PreOrder(tree, i) ==
    <<i>> \o Flatten([k \in 1..Len(tree.subsections[i]) |->
                        PreOrder(tree, tree.subsections[i][k])])

TreePreOrder(tree) ==
    Flatten([k \in 1..Len(tree.result) |-> PreOrder(tree, tree.result[k])])

LevelTitles(tree) ==
    LET po == TreePreOrder(tree)
    IN  [k \in 1..Len(po) |-> <<tree.flat[po[k]].level, tree.flat[po[k]].title>>]

Levels(secs) == [i \in 1..Len(secs) |-> secs[i].level]

----------------------------------------------------------------------------
\* Codecs behind open(file_path, "r", encoding=...).read()

\* A decode result: the text, or a failure (UnicodeDecodeError, LookupError).
DecOK(t) == [ok |-> TRUE, text |-> t]
DecFail == [ok |-> FALSE, text |-> <<>>]

REPLACEMENT == 65533

IsCont(b) == b >= 128 /\ b <= 191

\* Length of the well-formed UTF-8 sequence starting at b[i]; 0 if ill-formed.
Utf8Len(b, i) ==
    LET c == b[i]
        n == Len(b)
    IN  IF c < 128 THEN 1
        ELSE IF c >= 194 /\ c <= 223
        THEN IF i + 1 <= n /\ IsCont(b[i + 1]) THEN 2 ELSE 0
        ELSE IF c >= 224 /\ c <= 239
        THEN IF /\ i + 2 <= n
                /\ IsCont(b[i + 1])
                /\ IsCont(b[i + 2])
                /\ (c = 224 => b[i + 1] >= 160)
                /\ (c = 237 => b[i + 1] <= 159)
             THEN 3 ELSE 0
        ELSE IF c >= 240 /\ c <= 244
        THEN IF /\ i + 3 <= n
                /\ IsCont(b[i + 1])
                /\ IsCont(b[i + 2])
                /\ IsCont(b[i + 3])
                /\ (c = 240 => b[i + 1] >= 144)
                /\ (c = 244 => b[i + 1] <= 143)
             THEN 4 ELSE 0
        ELSE 0

Utf8Point(b, i, len) ==
    CASE len = 1 -> b[i]
      [] len = 2 -> (b[i] - 192) * 64 + (b[i + 1] - 128)
      [] len = 3 -> (b[i] - 224) * 4096 + (b[i + 1] - 128) * 64 + (b[i + 2] - 128)
      [] len = 4 -> (b[i] - 240) * 262144 + (b[i + 1] - 128) * 4096
                        + (b[i + 2] - 128) * 64 + (b[i + 3] - 128)

\* Bytes one replacement character stands for: the ill-formed sequence's
\* maximal well-formed prefix, at least one byte.
Utf8BadLen(b, i) ==
    LET c == b[i]
        n == Len(b)
        second == /\ i + 1 <= n
                  /\ IsCont(b[i + 1])
                  /\ (c = 224 => b[i + 1] >= 160)
                  /\ (c = 237 => b[i + 1] <= 159)
                  /\ (c = 240 => b[i + 1] >= 144)
                  /\ (c = 244 => b[i + 1] <= 143)
    IN  IF c >= 224 /\ c <= 239 /\ second THEN 2
        ELSE IF c >= 240 /\ c <= 244 /\ second
        THEN IF i + 2 <= n /\ IsCont(b[i + 2]) THEN 3 ELSE 2
        ELSE 1

\* bytes.decode("utf-8", errors): errors is "strict" or "replace".
RECURSIVE Utf8From(_, _, _)
Utf8From(b, i, errors) ==
    IF i > Len(b) THEN DecOK(<<>>)
    ELSE LET len == Utf8Len(b, i)
         IN  IF len = 0 /\ errors = "strict" THEN DecFail
             ELSE LET step == IF len = 0 THEN Utf8BadLen(b, i) ELSE len
                      cp == IF len = 0 THEN REPLACEMENT ELSE Utf8Point(b, i, len)
                      rest == Utf8From(b, i + step, errors)
                  IN  IF rest.ok THEN DecOK(<<cp>> \o rest.text) ELSE DecFail

\* utf-8-sig: a leading byte order mark EF BB BF is skipped; a file shorter
\* than the mark that is a prefix of it is held back by the stream decoder
\* and reads as the empty text.
Utf8Bom == <<239, 187, 191>>

Utf8SigDecode(b) ==
    IF Len(b) < 3 /\ SubSeq(Utf8Bom, 1, Len(b)) = b THEN DecOK(<<>>)
    ELSE IF Len(b) >= 3 /\ SubSeq(b, 1, 3) = Utf8Bom THEN Utf8From(b, 4, "strict")
    ELSE Utf8From(b, 1, "strict")

AsciiDecode(b) ==
    IF \A i \in 1..Len(b) : b[i] < 128 THEN DecOK(b) ELSE DecFail

\* latin1 maps every byte to the code point of the same value.
Latin1Decode(b) == DecOK(b)

Cp1252Undefined == {129, 141, 143, 144, 157}

Cp1252High ==
    128 :> 8364 @@ 130 :> 8218 @@ 131 :> 402 @@ 132 :> 8222 @@ 133 :> 8230
    @@ 134 :> 8224 @@ 135 :> 8225 @@ 136 :> 710 @@ 137 :> 8240 @@ 138 :>
    352 @@ 139 :> 8249 @@ 140 :> 338 @@ 142 :> 381 @@ 145 :> 8216 @@ 146
    :> 8217 @@ 147 :> 8220 @@ 148 :> 8221 @@ 149 :> 8226 @@ 150 :> 8211 @@
    151 :> 8212 @@ 152 :> 732 @@ 153 :> 8482 @@ 154 :> 353 @@ 155 :> 8250
    @@ 156 :> 339 @@ 158 :> 382 @@ 159 :> 376

Cp1252Decode(b) ==
    IF \E i \in 1..Len(b) : b[i] \in Cp1252Undefined THEN DecFail
    ELSE DecOK([i \in 1..Len(b) |->
                    IF b[i] >= 128 /\ b[i] <= 159 THEN Cp1252High[b[i]] ELSE b[i]])

IsSurrogate(u) == u >= 55296 /\ u <= 57343

\* utf-16: FF FE selects little endian, FE FF big endian, both are skipped.
RECURSIVE Utf16Units(_, _, _)
Utf16Units(b, i, big) ==
    IF i > Len(b) THEN DecOK(<<>>)
    ELSE IF i + 1 > Len(b) THEN DecFail
    ELSE LET u == IF big THEN b[i] * 256 + b[i + 1] ELSE b[i + 1] * 256 + b[i]
         IN  IF ~IsSurrogate(u)
             THEN LET rest == Utf16Units(b, i + 2, big)
                  IN  IF rest.ok THEN DecOK(<<u>> \o rest.text) ELSE DecFail
             ELSE IF u >= 56320 \/ i + 3 > Len(b) THEN DecFail
             ELSE LET v == IF big THEN b[i + 2] * 256 + b[i + 3]
                                  ELSE b[i + 3] * 256 + b[i + 2]
                      rest == Utf16Units(b, i + 4, big)
                  IN  IF v >= 56320 /\ v <= 57343 /\ rest.ok
                      THEN DecOK(<<65536 + (u - 55296) * 1024 + (v - 56320)>> \o rest.text)
                      ELSE DecFail

\* A file read needs the mark: without one the stream decoder raises
\* "UTF-16 stream does not start with BOM" as soon as it has bytes to decode.
Utf16Decode(b) ==
    IF Len(b) >= 2 /\ SubSeq(b, 1, 2) = <<255, 254>> THEN Utf16Units(b, 3, FALSE)
    ELSE IF Len(b) >= 2 /\ SubSeq(b, 1, 2) = <<254, 255>> THEN Utf16Units(b, 3, TRUE)
    ELSE IF b = <<>> THEN DecOK(<<>>)
    ELSE DecFail

\* utf-32: FF FE 00 00 selects little endian, 00 00 FE FF big endian.
RECURSIVE Utf32Units(_, _, _)
Utf32Units(b, i, big) ==
    IF i > Len(b) THEN DecOK(<<>>)
    ELSE IF i + 3 > Len(b) THEN DecFail
    ELSE LET top == IF big THEN b[i] ELSE b[i + 3]
             low == IF big THEN b[i + 1] * 65536 + b[i + 2] * 256 + b[i + 3]
                           ELSE b[i + 2] * 65536 + b[i + 1] * 256 + b[i]
         IN  IF top # 0 \/ low > 1114111 \/ IsSurrogate(low) THEN DecFail
             ELSE LET rest == Utf32Units(b, i + 4, big)
                  IN  IF rest.ok THEN DecOK(<<low>> \o rest.text) ELSE DecFail

Utf32Decode(b) ==
    IF Len(b) >= 4 /\ SubSeq(b, 1, 4) = <<255, 254, 0, 0>> THEN Utf32Units(b, 5, FALSE)
    ELSE IF Len(b) >= 4 /\ SubSeq(b, 1, 4) = <<0, 0, 254, 255>> THEN Utf32Units(b, 5, TRUE)
    ELSE IF b = <<>> THEN DecOK(<<>>)
    ELSE DecFail

\* The codec Python finds for an encoding name (names are looked up ignoring
\* case, with aliases); "unknown" raises LookupError.
Codec(enc) ==
    CASE enc \in {"utf-8", "UTF-8"} -> "utf_8"
      [] enc = "utf-8-sig" -> "utf_8_sig"
      [] enc \in {"latin1", "ISO-8859-1"} -> "latin_1"
      [] enc \in {"cp1252", "Windows-1252"} -> "cp1252"
      [] enc = "ascii" -> "ascii"
      [] enc \in {"utf-16", "UTF-16"} -> "utf_16"
      [] enc = "utf-32" -> "utf_32"
      [] OTHER -> "unknown"

\* Text mode reads translate "\r\n" and "\r" to "\n".
RECURSIVE UniversalNewlines(_)
UniversalNewlines(t) ==
    IF t = <<>> THEN <<>>
    ELSE IF t[1] = 13
    THEN <<NL>> \o UniversalNewlines(IF Len(t) >= 2 /\ t[2] = NL
                                      THEN SubSeq(t, 3, Len(t)) ELSE Tail(t))
    ELSE <<t[1]>> \o UniversalNewlines(Tail(t))

\* open(file_path, "r", encoding=enc).read() on a file holding bytes b.
Decode(enc, b) ==
    LET c == Codec(enc)
        r == CASE c = "utf_8" -> Utf8From(b, 1, "strict")
               [] c = "utf_8_sig" -> Utf8SigDecode(b)
               [] c = "latin_1" -> Latin1Decode(b)
               [] c = "cp1252" -> Cp1252Decode(b)
               [] c = "ascii" -> AsciiDecode(b)
               [] c = "utf_16" -> Utf16Decode(b)
               [] c = "utf_32" -> Utf32Decode(b)
               [] OTHER -> DecFail
    IN  IF r.ok THEN DecOK(UniversalNewlines(r.text)) ELSE DecFail

\* open(file_path, "r", encoding="utf-8", errors="replace").read()
DecodeReplace(b) == DecOK(UniversalNewlines(Utf8From(b, 1, "replace").text))

\* str.lower() of an encoding name.
Lower(enc) ==
    CASE enc = "UTF-8" -> "utf-8"
      [] enc = "UTF-16" -> "utf-16"
      [] enc = "Windows-1252" -> "windows-1252"
      [] enc = "ISO-8859-1" -> "iso-8859-1"
      [] enc = "EUC-TW" -> "euc-tw"
      [] OTHER -> enc

----------------------------------------------------------------------------
\* The diagnostic document returned for a PDF under another suffix.

\* "# PDF Document Detected\n\n**File**: "
DiagnosticHead ==
    <<35, 32, 80, 68, 70, 32, 68, 111, 99, 117, 109, 101, 110, 116, 32, 68,
      101, 116, 101, 99, 116, 101, 100, 10, 10, 42, 42, 70, 105, 108, 101,
      42, 42, 58, 32>>

\* "\n**Size**: "
DiagnosticSize ==
    <<10, 42, 42, 83, 105, 122, 101, 42, 42, 58, 32>>

\* " bytes ("
DiagnosticBytes ==
    <<32, 98, 121, 116, 101, 115, 32, 40>>

\* " MB)\n**Type**: PDF Document\n\n## Issue\n..." to the end of the literal
DiagnosticTail ==
    <<32, 77, 66, 41, 10, 42, 42, 84, 121, 112, 101, 42, 42, 58, 32, 80, 68,
      70, 32, 68, 111, 99, 117, 109, 101, 110, 116, 10, 10, 35, 35, 32, 73,
      115, 115, 117, 101, 10, 84, 104, 105, 115, 32, 102, 105, 108, 101, 32,
      105, 115, 32, 97, 32, 80, 68, 70, 32, 100, 111, 99, 117, 109, 101,
      110, 116, 32, 116, 104, 97, 116, 32, 119, 97, 115, 32, 105, 110, 99,
      111, 114, 114, 101, 99, 116, 108, 121, 32, 115, 97, 118, 101, 100, 32,
      119, 105, 116, 104, 32, 97, 32, 46, 109, 100, 32, 101, 120, 116, 101,
      110, 115, 105, 111, 110, 46, 10, 10, 35, 35, 32, 83, 111, 108, 117,
      116, 105, 111, 110, 115, 10, 49, 46, 32, 42, 42, 82, 101, 110, 97,
      109, 101, 32, 116, 104, 101, 32, 102, 105, 108, 101, 42, 42, 58, 32,
      67, 104, 97, 110, 103, 101, 32, 116, 104, 101, 32, 101, 120, 116, 101,
      110, 115, 105, 111, 110, 32, 102, 114, 111, 109, 32, 46, 109, 100, 32,
      116, 111, 32, 46, 112, 100, 102, 10, 50, 46, 32, 42, 42, 85, 115, 101,
      32, 97, 32, 80, 68, 70, 32, 114, 101, 97, 100, 101, 114, 42, 42, 58,
      32, 79, 112, 101, 110, 32, 116, 104, 101, 32, 102, 105, 108, 101, 32,
      119, 105, 116, 104, 32, 97, 32, 80, 68, 70, 32, 118, 105, 101, 119,
      101, 114, 10, 51, 46, 32, 42, 42, 67, 111, 110, 118, 101, 114, 116,
      32, 116, 111, 32, 116, 101, 120, 116, 42, 42, 58, 32, 85, 115, 101,
      32, 97, 32, 80, 68, 70, 45, 116, 111, 45, 116, 101, 120, 116, 32, 99,
      111, 110, 118, 101, 114, 116, 101, 114, 10, 10, 35, 35, 32, 70, 111,
      114, 32, 68, 101, 101, 112, 67, 111, 100, 101, 32, 80, 114, 111, 99,
      101, 115, 115, 105, 110, 103, 10, 84, 111, 32, 112, 114, 111, 99, 101,
      115, 115, 32, 116, 104, 105, 115, 32, 80, 68, 70, 32, 119, 105, 116,
      104, 32, 68, 101, 101, 112, 67, 111, 100, 101, 58, 10, 49, 46, 32, 82,
      101, 110, 97, 109, 101, 32, 116, 104, 101, 32, 102, 105, 108, 101, 32,
      116, 111, 32, 104, 97, 118, 101, 32, 97, 32, 46, 112, 100, 102, 32,
      101, 120, 116, 101, 110, 115, 105, 111, 110, 10, 50, 46, 32, 85, 112,
      108, 111, 97, 100, 32, 105, 116, 32, 97, 103, 97, 105, 110, 32, 45,
      32, 68, 101, 101, 112, 67, 111, 100, 101, 32, 119, 105, 108, 108, 32,
      97, 117, 116, 111, 109, 97, 116, 105, 99, 97, 108, 108, 121, 32, 101,
      120, 116, 114, 97, 99, 116, 32, 97, 110, 100, 32, 99, 111, 110, 118,
      101, 114, 116, 32, 116, 104, 101, 32, 99, 111, 110, 116, 101, 110,
      116, 10, 10, 45, 45, 45, 10, 42, 65, 117, 116, 111, 45, 100, 101, 116,
      101, 99, 116, 101, 100, 32, 98, 121, 32, 68, 101, 101, 112, 67, 111,
      100, 101, 32, 69, 110, 99, 111, 100, 105, 110, 103, 32, 83, 121, 115,
      116, 101, 109, 42, 10, 42, 82, 101, 115, 112, 101, 99, 116, 105, 110,
      103, 32, 121, 111, 117, 114, 32, 108, 111, 99, 97, 108, 32, 100, 101,
      118, 101, 108, 111, 112, 109, 101, 110, 116, 32, 112, 114, 105, 118,
      97, 99, 121, 32, 112, 114, 101, 102, 101, 114, 101, 110, 99, 101, 115,
      42, 10>>

\* str(n) for a natural number
RECURSIVE Digits(_)
Digits(n) == IF n < 10 THEN <<48 + n>> ELSE Digits(n \div 10) \o <<48 + (n % 10)>>

\* f"{n:,}": groups of three digits separated by commas
RECURSIVE Grouped(_)
Grouped(n) ==
    IF n < 1000 THEN Digits(n)
    ELSE Grouped(n \div 1000)
            \o <<44, 48 + ((n \div 100) % 10), 48 + ((n \div 10) % 10), 48 + (n % 10)>>

\* f"{n/1024/1024:.2f}": megabytes rounded to hundredths
Megabytes(n) ==
    LET h == (n * 100 + 524288) \div 1048576
    IN  Digits(h \div 100) \o <<46, 48 + ((h \div 10) % 10), 48 + (h % 10)>>

DiagnosticDocument(basename, file_size) ==
    DiagnosticHead \o basename \o DiagnosticSize \o Grouped(file_size)
        \o DiagnosticBytes \o Megabytes(file_size) \o DiagnosticTail

----------------------------------------------------------------------------
\* read_file_content

\* File names of the model and their characters.
NameText(name) ==
    CASE name = "paper.md" -> <<112, 97, 112, 101, 114, 46, 109, 100>>
      [] name = "notes.txt" -> <<110, 111, 116, 101, 115, 46, 116, 120, 116>>
      [] name = "doc.md" -> <<100, 111, 99, 46, 109, 100>>
      [] name = "other.md" -> <<111, 116, 104, 101, 114, 46, 109, 100>>
      [] name = "missing.md" -> <<109, 105, 115, 115, 105, 110, 103, 46, 109, 100>>
      [] name = "lab" -> <<108, 97, 98>>
      [] name = "deepcode_lab" ->
            <<100, 101, 101, 112, 99, 111, 100, 101, 95, 108, 97, 98>>
      [] name = "nodir" -> <<110, 111, 100, 105, 114>>
      [] name = "w" -> <<119>>
      [] name = "base" -> <<98, 97, 115, 101>>
      [] name = "papers" -> <<112, 97, 112, 101, 114, 115>>
      [] OTHER -> <<>>

StartsWith(s, p) == Len(s) >= Len(p) /\ SubSeq(s, 1, Len(p)) = p
EndsWith(s, p) == Len(s) >= Len(p) /\ SubSeq(s, Len(s) - Len(p) + 1, Len(s)) = p

\* f.read(n)
ReadPrefix(b, n) == SubSeq(b, 1, IF Len(b) < n THEN Len(b) ELSE n)

HeaderBytes == 10

\* b'%PDF'
PdfMagic == <<37, 80, 68, 70>>

IsPdfExact(header) == header = PdfMagic

\* header.startswith(b'%PDF')
IsPdf(header) == StartsWith(header, PdfMagic)

\* Confidence in hundredths: 0.7 is 70.
ConfidenceThreshold == 70

ConfidenceTooLowInclusive(confidence) == confidence <= ConfidenceThreshold

\* confidence < 0.7
ConfidenceTooLow(confidence) == confidence < ConfidenceThreshold

\* What "import chardet; chardet.detect(raw_data)" can do: the import fails,
\* the detection raises, or it answers with an encoding (possibly None) and a
\* confidence.
ChardetOutcome(kind, encoding, confidence) ==
    [kind |-> kind, encoding |-> encoding, confidence |-> confidence]

NotDetected == ChardetOutcome("none", None, 0)

\* detected_encoding after the detection block.
AcceptedEncoding(det) ==
    IF det.kind = "result" /\ ~ConfidenceTooLow(det.confidence)
    THEN det.encoding
    ELSE None

FallbackEncodingsNoLatin1 ==
    <<"utf-8", "utf-8-sig", "cp1252", "ascii", "utf-16", "utf-32">>

\* Add common encodings as fallbacks.
FallbackEncodings ==
    <<"utf-8", "utf-8-sig", "latin1", "cp1252", "ascii", "utf-16", "utf-32">>

\* encodings_to_try
EncodingsToTry(detected) ==
    (IF detected # None THEN <<detected>> ELSE <<>>) \o FallbackEncodings

\* Duplicates removed by comparing the names as written.
RECURSIVE DedupCaseSensitive(_, _, _)
DedupCaseSensitive(encs, i, seen) ==
    IF i > Len(encs) THEN <<>>
    ELSE IF encs[i] # None /\ encs[i] \notin seen
    THEN <<encs[i]>> \o DedupCaseSensitive(encs, i + 1, seen \cup {encs[i]})
    ELSE DedupCaseSensitive(encs, i + 1, seen)

\* Remove duplicates while preserving order (compared in lower case).
RECURSIVE Dedup(_, _, _)
Dedup(encs, i, seen) ==
    IF i > Len(encs) THEN <<>>
    ELSE IF encs[i] # None /\ Lower(encs[i]) \notin seen
    THEN <<encs[i]>> \o Dedup(encs, i + 1, seen \cup {Lower(encs[i])})
    ELSE Dedup(encs, i + 1, seen)

UniqueEncodings(encs) == Dedup(encs, 1, {})

\* The value or exception a call ends with.
Returned(via, text) == [outcome |-> "return", via |-> via, text |-> text]
Raised(error) == [outcome |-> "raise", via |-> error, text |-> <<>>]
NoReturn == [outcome |-> "none", via |-> None, text |-> <<>>]

\* The error open(...).read() raises for an encoding that does not decode.
DecodeError(enc) ==
    IF Codec(enc) = "unknown" THEN "LookupError" ELSE "UnicodeDecodeError"

OnDecodeErrorRaise(error) == "raise"

\* except UnicodeDecodeError / except Exception: last_error = e; continue
OnDecodeError(error) == "continue"

WithExitOnSuccess(how) == IF how = "error" THEN 0 ELSE 1

\* with open(...) as f: the number of handles the block closes when it is
\* left normally, by a return or by an exception.
WithExit(how) == 1

SkipCandidate(i) == i + 2

\* for encoding in unique_encodings: the position after the i-th entry.
NextCandidate(i) == i + 1

\* The loop over unique_encodings from its i-th entry, then the forced
\* substitution.
RECURSIVE TryEncodings(_, _, _)
TryEncodings(encs, b, i) ==
    IF i > Len(encs) THEN Returned("utf-8-replace", DecodeReplace(b).text)
    ELSE IF Decode(encs[i], b).ok THEN Returned(encs[i], Decode(encs[i], b).text)
    ELSE IF OnDecodeError(DecodeError(encs[i])) = "continue"
    THEN TryEncodings(encs, b, NextCandidate(i))
    ELSE Raised("IOError")

\* read_file_content on a file in the given state, for one behaviour det of
\* the detector.
ReadFileContent(state, name, b, det) ==
    IF state = "absent" THEN Raised("FileNotFoundError")
    ELSE IF state = "unreadable" THEN Raised("PermissionError")
    ELSE IF IsPdf(ReadPrefix(b, HeaderBytes))
    THEN Returned("pdf", DiagnosticDocument(NameText(name), Len(b)))
    ELSE TryEncodings(UniqueEncodings(EncodingsToTry(AcceptedEncoding(det))), b, 1)

----------------------------------------------------------------------------
\* Paths and the file system.
\*
\* A path string is the sequence of its components; an absolute path starts
\* with the component "/", the empty string is <<>>.  The model's paths hold
\* no "." or ".." component and no trailing separator.

Root == <<"/">>

\* os.getcwd()
Cwd == <<"/", "w">>

\* A path value that is None.
NonePath == <<None>>

\* "if p": neither None nor the empty string.
Truthy(p) == p # NonePath /\ p # <<>>

IsAbs(p) == p # <<>> /\ p[1] = "/"

\* os.path.abspath
AbsPath(p) == IF IsAbs(p) THEN p ELSE Cwd \o p

\* os.path.dirname
DirName(p) ==
    IF Len(p) >= 2 THEN Front(p)
    ELSE IF IsAbs(p) THEN Root
    ELSE <<>>

\* os.path.basename
BaseName(p) == IF p = <<>> \/ p = Root THEN "" ELSE Last(p)

\* os.path.join(directory, name, ...)
JoinPath(directory, names) == directory \o names

\* str.endswith on a path string: a suffix without separator is a suffix of
\* the last component.
PathEndsWith(p, suffix) ==
    p # <<>> /\ p # Root /\ EndsWith(NameText(Last(p)), suffix)

\* ".md"
DotMd == <<46, 109, 100>>

\* (".md", ".pdf", ".txt", ".docx", ".doc", ".html", ".htm")
DocSuffixes ==
    {DotMd, <<46, 112, 100, 102>>, <<46, 116, 120, 116>>,
     <<46, 100, 111, 99, 120>>, <<46, 100, 111, 99>>,
     <<46, 104, 116, 109, 108>>, <<46, 104, 116, 109>>}

\* ("deepcode_lab", "agent_folders")
LabSentinels ==
    {<<100, 101, 101, 112, 99, 111, 100, 101, 95, 108, 97, 98>>,
     <<97, 103, 101, 110, 116, 95, 102, 111, 108, 100, 101, 114, 115>>}

\* os.listdir of an absolute directory: the names of its files, in listing
\* order (the model's subdirectories carry no suffix and are left out).
Listing(l, directory) == IF directory \in DOMAIN l THEN l[directory] ELSE <<>>

\* os.path.isdir, os.path.isfile, os.path.exists on file system (d, l)
IsDir(d, l, p) == p # <<>> /\ AbsPath(p) \in d

IsFile(d, l, p) ==
    /\ p # <<>>
    /\ Len(AbsPath(p)) >= 2
    /\ DirName(AbsPath(p)) \in d
    /\ Last(AbsPath(p)) \in Range(Listing(l, DirName(AbsPath(p))))

Exists(d, l, p) == IsDir(d, l, p) \/ IsFile(d, l, p)

\* os.makedirs(p, exist_ok=True): p and all its ancestors are directories.
MakeDirs(d, p) == d \cup {SubSeq(AbsPath(p), 1, k) : k \in 1..Len(AbsPath(p))}

MakeDirsExclusive(d, l, p) == Exists(d, l, p)

\* os.makedirs(p, exist_ok=True) raises FileExistsError when p or one of its
\* ancestors is a file.
MakeDirsRaises(d, l, p) ==
    \E k \in 1..Len(AbsPath(p)) : IsFile(d, l, SubSeq(AbsPath(p), 1, k))

\* The last entry ending in .md instead of the first.
FindLastMarkdownFile(d, l, directory) ==
    IF ~IsDir(d, l, directory) THEN NonePath
    ELSE LET names == Listing(l, AbsPath(directory))
             K == {i \in 1..Len(names) : EndsWith(NameText(names[i]), DotMd)}
         IN  IF K = {} THEN NonePath
             ELSE JoinPath(directory, <<names[CHOOSE i \in K : \A j \in K : i >= j]>>)

\* find_markdown_file
FindMarkdownFile(d, l, directory) ==
    IF ~IsDir(d, l, directory) THEN NonePath
    ELSE LET names == Listing(l, AbsPath(directory))
             K == {i \in 1..Len(names) : EndsWith(NameText(names[i]), DotMd)}
         IN  IF K = {} THEN NonePath
             ELSE JoinPath(directory, <<names[CHOOSE i \in K : \A j \in K : i <= j]>>)

----------------------------------------------------------------------------
\* The shapes of file_input.
\*
\*   shape "path"    a string that is a path
\*         "json"    a string that is a JSON document
\*         "fenced"  a string with a JSON object inside a ```json fence
\*         "prose"   a string with a JSON object inside other text
\*         "hint"    a string with a path ending in .md between backticks
\*         "text"    any other string
\*         "dict"    a mapping
\*         "other"   neither a string nor a mapping (None)
\*   payload of the JSON document or mapping:
\*         "paper_path"  an object whose key paper_path holds the path
\*         "no_key"      a non-empty object without the key paper_path
\*         "empty"       the empty object
\*         "array"       a JSON document that is not an object
\*         "none"        no JSON at all
FileInput(shape, payload, path) == [shape |-> shape, payload |-> payload, path |-> path]

IsStr(fi) == fi.shape \in {"path", "json", "fenced", "prose", "hint", "text"}

\* re.search(r"`([^`]+\.md)`", file_input) turns a hint into a mapping.
HintToDict(fi) ==
    IF fi.shape = "hint" THEN FileInput("dict", "paper_path", fi.path) ELSE fi

\* file_input.endswith((".md", ".pdf", ...)): among the model's strings only a
\* path can end in a document suffix.
EndsWithDocSuffix(fi) ==
    fi.shape = "path" /\ \E s \in DocSuffixes : PathEndsWith(fi.path, s)

\* The string as a path for os.path.exists: only a path names a file.
AsPath(fi) == IF fi.shape = "path" THEN fi.path ELSE <<>>

\* json.loads(file_input) succeeds on a JSON document only.
JsonLoadsOk(fi) == fi.shape = "json"

\* return None
NoObject == [found |-> FALSE, payload |-> "none", path |-> NonePath]

\* extract_json_from_text: the fenced object whatever its keys, else the
\* first object in the text that holds paper_path, else None.
ExtractJsonFromText(fi) ==
    IF fi.shape = "fenced" THEN [found |-> TRUE, payload |-> fi.payload, path |-> fi.path]
    ELSE IF fi.shape \in {"prose", "json"} /\ fi.payload = "paper_path"
    THEN [found |-> TRUE, payload |-> fi.payload, path |-> fi.path]
    ELSE NoObject

\* The result of a step: a value, or a raised exception.
Ok(value) == [raised |-> FALSE, error |-> None, value |-> value]
Raise(error) == [raised |-> TRUE, error |-> error, value |-> NonePath]

\* info_dict.get("paper_path") and what follows in extract_file_path
DirOfPayload(payload, path) ==
    IF payload = "array" \/ payload = "none" THEN Raise("AttributeError")
    ELSE IF payload # "paper_path" \/ ~Truthy(path)
    THEN Raise("ValueError: No paper_path found in input dictionary")
    ELSE Ok(IF IsAbs(DirName(path)) THEN DirName(path) ELSE AbsPath(DirName(path)))

\* extract_file_path
ExtractFilePath(d, l, fi) ==
    IF IsStr(fi)
    THEN IF EndsWithDocSuffix(fi) THEN Ok(DirName(AbsPath(fi.path)))
         ELSE IF IsFile(d, l, AsPath(fi)) THEN Ok(DirName(AbsPath(fi.path)))
         ELSE IF IsDir(d, l, AsPath(fi)) THEN Ok(AbsPath(fi.path))
         ELSE IF JsonLoadsOk(fi) THEN DirOfPayload(fi.payload, fi.path)
         ELSE LET ex == ExtractJsonFromText(fi)
              IN  IF ~ex.found \/ ex.payload = "empty"
                  THEN Raise("ValueError: Input is neither a valid file path nor JSON")
                  ELSE DirOfPayload(ex.payload, ex.path)
    ELSE IF fi.shape = "dict" THEN DirOfPayload(fi.payload, fi.path)
    ELSE Raise("AttributeError")

RewriteDirUnderPapers(base, pd) == JoinPath(base, <<"papers", BaseName(pd)>>)

\* The adjustment of paper_dir to base_dir.
RewriteDir(base, pd) ==
    IF \E s \in LabSentinels : PathEndsWith(pd, s) THEN base
    ELSE JoinPath(base, <<"papers", BaseName(pd)>>)

\* The first part of process_file_input, up to "if not paper_dir": the
\* directory, the directories that exist afterwards, or the exception.
ResolveDirectory(d, l, input, base) ==
    LET r == ExtractFilePath(d, l, HintToDict(input))
        rewrite == Truthy(base) /\ ~r.raised /\ Truthy(r.value)
        pd == IF rewrite THEN RewriteDir(base, r.value) ELSE r.value
    IN  IF r.raised THEN [raised |-> TRUE, error |-> r.error, paper_dir |-> NonePath, dirs |-> d]
        ELSE IF rewrite /\ MakeDirsRaises(d, l, pd)
        THEN [raised |-> TRUE, error |-> "FileExistsError", paper_dir |-> pd, dirs |-> d]
        ELSE IF ~Truthy(pd)
        THEN [raised |-> TRUE, error |-> "ValueError: Could not determine paper directory path",
              paper_dir |-> pd, dirs |-> IF rewrite THEN MakeDirs(d, pd) ELSE d]
        ELSE [raised |-> FALSE, error |-> None, paper_dir |-> pd,
              dirs |-> IF rewrite THEN MakeDirs(d, pd) ELSE d]

\* The outcome of resolving the file: file_path, paper_dir, and whether a
\* directory was scanned for a markdown file and with what result.
Resolved(fp, pd, fb) ==
    IF fb = "not_found"
    THEN [raised |-> TRUE, error |-> "ValueError: No markdown file found in directory",
          file_path |-> fp, paper_dir |-> pd, fallback |-> fb]
    ELSE IF ~Truthy(fp)
    THEN [raised |-> TRUE, error |-> "ValueError: No valid file path found",
          file_path |-> fp, paper_dir |-> pd, fallback |-> fb]
    ELSE [raised |-> FALSE, error |-> None, file_path |-> fp, paper_dir |-> pd,
          fallback |-> fb]

NotResolved(error, pd) ==
    [raised |-> TRUE, error |-> error, file_path |-> NonePath, paper_dir |-> pd,
     fallback |-> "none"]

\* Scanning a directory for the markdown file.
Scan(d, l, directory, pd) ==
    LET f == FindMarkdownFile(d, l, directory)
    IN  Resolved(f, pd, IF f = NonePath THEN "not_found" ELSE "found")

\* file_path = <payload>.get("paper_path"), then the search in its directory
\* when the file does not exist.
FromPaperPath(d, l, payload, path, pd) ==
    IF payload # "paper_path" THEN Resolved(NonePath, pd, "none")
    ELSE IF Truthy(path) /\ ~Exists(d, l, path)
    THEN IF IsDir(d, l, DirName(path))
         THEN Scan(d, l, DirName(path), DirName(path))
         ELSE Resolved(path, DirName(path), "none")
    ELSE Resolved(path, pd, "none")

\* "Get the actual file path": the second part of process_file_input.
ResolveFile(d, l, input, pd) ==
    LET fi == HintToDict(input)
    IN  IF IsStr(fi)
        THEN IF JsonLoadsOk(fi)
             THEN IF fi.payload = "paper_path"
                  THEN FromPaperPath(d, l, fi.payload, fi.path, pd)
                  ELSE NotResolved("ValueError: Invalid JSON format: missing paper_path", pd)
             ELSE LET ex == ExtractJsonFromText(fi)
                  IN  IF ex.found /\ ex.payload = "paper_path"
                      THEN FromPaperPath(d, l, ex.payload, ex.path, pd)
                      ELSE IF EndsWithDocSuffix(fi)
                      THEN IF Exists(d, l, fi.path)
                           THEN Resolved(fi.path, pd, "none")
                           ELSE Scan(d, l, pd, pd)
                      ELSE IF Exists(d, l, AsPath(fi))
                      THEN IF IsFile(d, l, fi.path)
                           THEN Resolved(fi.path, pd, "none")
                           ELSE Scan(d, l, fi.path, pd)
                      ELSE NotResolved("ValueError: Invalid input", pd)
        ELSE IF fi.shape = "dict"
        THEN FromPaperPath(d, l, fi.payload, fi.path, pd)
        ELSE NotResolved("AttributeError", pd)

\* What read_file_content finds at a path.
FileState(d, l, p) ==
    IF IsFile(d, l, p) THEN "readable"
    ELSE IF IsDir(d, l, p) THEN "unreadable"
    ELSE "absent"

\* The value process_file_input ends with: the returned mapping, or the
\* ValueError raised by "except Exception as e".
Response(status, cause, pd, fp, tree, text) ==
    [status |-> status, cause |-> cause, paper_dir |-> pd, file_path |-> fp,
     sections |-> tree, standardized_text |-> text]

NoResponse == Response("none", None, NonePath, NonePath, NoTree, <<>>)

OnExceptionSwallow(cause) == Response("ok", cause, NonePath, NonePath, NoTree, <<>>)

\* raise ValueError(f"Error processing file input: {str(e)}")
OnException(cause) == Response("ValueError", cause, NonePath, NonePath, NoTree, <<>>)

\* process_file_input as one function of the file system (d, l, the bytes b
\* of its files), the arguments and the detector's behaviour: the outcome
\* and the directories that exist afterwards.
ProcessFileInput(d, l, b, input, base, det) ==
    LET r1 == ResolveDirectory(d, l, input, base)
        r2 == ResolveFile(r1.dirs, l, input, r1.paper_dir)
        r3 == ReadFileContent(FileState(r1.dirs, l, r2.file_path), BaseName(r2.file_path),
                              b, det)
        tree == ParseMarkdownSections(r3.text)
    IN  IF r1.raised THEN [response |-> OnException(r1.error), dirs |-> r1.dirs]
        ELSE IF r2.raised THEN [response |-> OnException(r2.error), dirs |-> r1.dirs]
        ELSE IF r3.outcome = "raise" THEN [response |-> OnException(r3.via), dirs |-> r1.dirs]
        ELSE [response |-> Response("ok", None, r2.paper_dir, r2.file_path, tree,
                                    StandardizeOutput(tree)),
              dirs |-> r1.dirs]

----------------------------------------------------------------------------
\* Specification of _organize_sections on an arbitrary flat sequence.

IdleOrganize ==
    /\ sections = <<>>
    /\ pos = 0
    /\ result = <<>>
    /\ section_stack = <<>>
    /\ subsections = <<>>
    /\ opc = "idle"

IdlePipeline ==
    /\ content = <<>>
    /\ parsed = NoTree
    /\ standardized_text = <<>>
    /\ reparsed = NoTree
    /\ ppc = "idle"

NoInput == FileInput("none", "none", NonePath)

IdleInput ==
    /\ dirs = {}
    /\ dirs_before = {}
    /\ listing = <<>>
    /\ doc = <<>>
    /\ file_input = NoInput
    /\ base_dir = NonePath
    /\ paper_dir = NonePath
    /\ fallback = "none"
    /\ response = NoResponse
    /\ ipc = "idle"

IdleHelpers ==
    /\ find_directory = NonePath
    /\ find_result = NonePath
    /\ json_text = NoInput
    /\ json_result = NoObject
    /\ hpc = [find |-> "idle", extract |-> "idle"]

\* _global_logger = None, _default_service = None
NoInstance == 0

IdleConcurrent ==
    /\ calls = <<>>
    /\ global_logger = NoInstance
    /\ default_service = NoInstance
    /\ constructed = <<>>
    /\ threads = <<>>

IdleRead ==
    /\ file_path = <<>>
    /\ file_state = "absent"
    /\ file_bytes = <<>>
    /\ rpc = "idle"
    /\ chardet = NotDetected
    /\ detected_encoding = None
    /\ encodings_to_try = <<>>
    /\ unique_encodings = <<>>
    /\ enc_idx = 0
    /\ last_error = None
    /\ attempts = <<>>
    /\ opens = 0
    /\ open_handles = 0
    /\ ret = NoReturn

FlatPool ==
    {[i \in 1..Len(lv) |-> [level |-> lv[i], title |-> <<LA>>, content |-> <<>>]] :
        lv \in SeqsUpTo(1..6, MaxSections)}

\* Deep inputs: the six levels nested one under the other, followed by a
\* section of any level.
DeepPool ==
    {[i \in 1..Len(lv) |-> [level |-> lv[i], title |-> <<LA>>, content |-> <<>>]] :
        lv \in {<<1, 2, 3, 4, 5, 6, n>> : n \in 1..6}}

InitOrganize ==
    /\ sections \in FlatPool \cup DeepPool
    /\ pos = 0
    /\ result = OrganizeStart(sections).result
    /\ section_stack = OrganizeStart(sections).section_stack
    /\ subsections = OrganizeStart(sections).subsections
    /\ opc = "loop"
    /\ IdlePipeline
    /\ IdleRead
    /\ IdleInput
    /\ IdleConcurrent
    /\ IdleHelpers

\* for section in sections: one iteration.
OrganizeIter ==
    /\ opc = "loop"
    /\ pos < Len(sections)
    /\ LET st == OrganizeStep([result |-> result, subsections |-> subsections,
                               section_stack |-> section_stack], sections, pos + 1)
       IN  /\ result' = st.result
           /\ subsections' = st.subsections
           /\ section_stack' = st.section_stack
    /\ pos' = pos + 1
    /\ UNCHANGED <<sections, opc, varsPipeline, varsRead, varsInput, varsConcurrent, varsHelpers>>

\* return result
OrganizeReturn ==
    /\ opc = "loop"
    /\ pos = Len(sections)
    /\ opc' = "done"
    /\ UNCHANGED <<sections, pos, result, section_stack, subsections, varsPipeline, varsRead, varsInput, varsConcurrent, varsHelpers>>

NextOrganize == OrganizeIter \/ OrganizeReturn

SpecOrganize == InitOrganize /\ [][NextOrganize]_vars

\* The tree the loop has built.
BuiltTree == [flat |-> sections, result |-> result, subsections |-> subsections]

----------------------------------------------------------------------------
\* Specification of the text pipeline: parse, render, parse again.

LinePool ==
    { <<HASH, SP, LA>>,             \* "# a"
      <<HASH, HASH, SP, LB>>,       \* "## b"
      <<HASH, HASH, HASH, SP, LA>>, \* "### a"
      <<LA>>,                       \* "a"
      <<>>,                         \* ""
      <<SP, HASH, SP, LB>>,         \* " # b"
      <<HASH, LA>>,                 \* "#a"
      <<HASH, SP, SP>> }            \* "#  "

TextPool == {Join(ls) : ls \in SeqsUpTo(LinePool, MaxLines)}

InitPipeline ==
    /\ content \in TextPool
    /\ parsed = NoTree
    /\ standardized_text = <<>>
    /\ reparsed = NoTree
    /\ ppc = "parse"
    /\ IdleOrganize
    /\ IdleRead
    /\ IdleInput
    /\ IdleConcurrent
    /\ IdleHelpers

\* structured_content = parse_markdown_sections(content)
Parse ==
    /\ ppc = "parse"
    /\ parsed' = ParseMarkdownSections(content)
    /\ ppc' = "render"
    /\ UNCHANGED <<content, standardized_text, reparsed, varsOrganize, varsRead, varsInput, varsConcurrent, varsHelpers>>

\* standardized_text = standardize_output(structured_content)
Standardize ==
    /\ ppc = "render"
    /\ standardized_text' = StandardizeOutput(parsed)
    /\ ppc' = "reparse"
    /\ UNCHANGED <<content, parsed, reparsed, varsOrganize, varsRead, varsInput, varsConcurrent, varsHelpers>>

\* parse_markdown_sections applied to the rendered text
Reparse ==
    /\ ppc = "reparse"
    /\ reparsed' = ParseMarkdownSections(standardized_text)
    /\ ppc' = "done"
    /\ UNCHANGED <<content, parsed, standardized_text, varsOrganize, varsRead, varsInput, varsConcurrent, varsHelpers>>

NextPipeline == Parse \/ Standardize \/ Reparse

SpecPipeline == InitPipeline /\ [][NextPipeline]_vars

----------------------------------------------------------------------------
\* Specification of read_file_content on one file.

ReadNames == {<<"paper.md">>, <<"notes.txt">>}

BodyBytes == {97, 129, 169, 195, 255}

BytePool ==
    {p \o b : p \in {<<>>, PdfMagic, <<37, 80, 68>>}, b \in SeqsUpTo(BodyBytes, MaxBody)}

GuessPool == {"ascii", "utf-8", "UTF-16", "Windows-1252", "ISO-8859-1", "EUC-TW"}

ConfidencePool == {0, 69, 70, 100}

ChardetOutcomes ==
    {ChardetOutcome("ImportError", None, 0), ChardetOutcome("Exception", None, 0),
     ChardetOutcome("result", None, 0)}
        \cup {ChardetOutcome("result", e, c) : e \in GuessPool, c \in ConfidencePool}

InitRead ==
    /\ file_path \in ReadNames
    /\ file_state \in {"absent", "unreadable", "readable"}
    /\ file_bytes \in IF file_state = "readable" THEN BytePool ELSE {<<>>}
    /\ rpc = "start"
    /\ chardet = NotDetected
    /\ detected_encoding = None
    /\ encodings_to_try = <<>>
    /\ unique_encodings = <<>>
    /\ enc_idx = 0
    /\ last_error = None
    /\ attempts = <<>>
    /\ opens = 0
    /\ open_handles = 0
    /\ ret = NoReturn
    /\ IdleOrganize
    /\ IdlePipeline
    /\ IdleInput
    /\ IdleConcurrent
    /\ IdleHelpers

\* The existence check and the PDF header check.
ReadHeader ==
    /\ rpc = "start"
    /\ IF file_state # "readable"
       THEN /\ ret' = ReadFileContent(file_state, Last(file_path), file_bytes, NotDetected)
            /\ rpc' = "done"
            /\ UNCHANGED <<opens, open_handles>>
       ELSE /\ opens' = opens + 1
            /\ open_handles' = open_handles + 1
                   - WithExit(IF IsPdf(ReadPrefix(file_bytes, HeaderBytes))
                              THEN "return" ELSE "normal")
            /\ IF IsPdf(ReadPrefix(file_bytes, HeaderBytes))
               THEN /\ ret' = Returned("pdf", DiagnosticDocument(NameText(Last(file_path)),
                                                                  Len(file_bytes)))
                    /\ rpc' = "done"
               ELSE /\ ret' = ret
                    /\ rpc' = "detect"
    /\ UNCHANGED <<file_path, file_state, file_bytes, chardet, detected_encoding,
                   encodings_to_try, unique_encodings, enc_idx, last_error, attempts,
                   varsOrganize, varsPipeline, varsInput, varsConcurrent, varsHelpers>>

\* Try to detect encoding first.
Detect ==
    /\ rpc = "detect"
    /\ \E det \in ChardetOutcomes :
        /\ chardet' = det
        /\ detected_encoding' = AcceptedEncoding(det)
        /\ opens' = IF det.kind = "ImportError" THEN opens ELSE opens + 1
        /\ open_handles' = IF det.kind = "ImportError" THEN open_handles
                           ELSE open_handles + 1
                                  - WithExit(IF det.kind = "Exception" THEN "error" ELSE "normal")
    /\ rpc' = "build"
    /\ UNCHANGED <<file_path, file_state, file_bytes, encodings_to_try, unique_encodings,
                   enc_idx, last_error, attempts, ret, varsOrganize, varsPipeline, varsInput, varsConcurrent, varsHelpers>>

\* List of encodings to try in order, without duplicates.
BuildCandidates ==
    /\ rpc = "build"
    /\ encodings_to_try' = EncodingsToTry(detected_encoding)
    /\ unique_encodings' = UniqueEncodings(EncodingsToTry(detected_encoding))
    /\ enc_idx' = 1
    /\ rpc' = "try"
    /\ UNCHANGED <<file_path, file_state, file_bytes, chardet, detected_encoding,
                   last_error, attempts, opens, open_handles, ret, varsOrganize, varsPipeline, varsInput, varsConcurrent, varsHelpers>>

\* One iteration of "for encoding in unique_encodings", or, past the last
\* one, the read with errors="replace".
TryEncoding ==
    /\ rpc = "try"
    /\ opens' = opens + 1
    /\ IF enc_idx <= Len(unique_encodings)
       THEN LET encoding == unique_encodings[enc_idx]
                d == Decode(encoding, file_bytes)
            IN  /\ attempts' = Append(attempts, encoding)
                /\ open_handles' = open_handles + 1
                                       - WithExit(IF d.ok THEN "normal" ELSE "error")
                /\ IF d.ok
                   THEN /\ ret' = Returned(encoding, d.text)
                        /\ rpc' = "done"
                        /\ UNCHANGED <<enc_idx, last_error>>
                   ELSE /\ last_error' = DecodeError(encoding)
                        /\ IF OnDecodeError(DecodeError(encoding)) = "continue"
                           THEN /\ enc_idx' = NextCandidate(enc_idx)
                                /\ UNCHANGED <<ret, rpc>>
                           ELSE /\ ret' = Raised("IOError")
                                /\ rpc' = "done"
                                /\ enc_idx' = enc_idx
       ELSE /\ ret' = Returned("utf-8-replace", DecodeReplace(file_bytes).text)
            /\ rpc' = "done"
            /\ open_handles' = open_handles + 1 - WithExit("normal")
            /\ UNCHANGED <<enc_idx, last_error, attempts>>
    /\ UNCHANGED <<file_path, file_state, file_bytes, chardet, detected_encoding,
                   encodings_to_try, unique_encodings, varsOrganize, varsPipeline, varsInput, varsConcurrent, varsHelpers>>

NextRead == ReadHeader \/ Detect \/ BuildCandidates \/ TryEncoding

SpecRead == InitRead /\ [][NextRead]_vars

----------------------------------------------------------------------------
\* Specification of process_file_input: one call on one file system.

BaseDir == <<"/", "base">>
LabDir == <<"/", "w", "lab">>
SentinelDir == <<"/", "w", "deepcode_lab">>
MovedDir == <<"/", "base", "papers", "lab">>

\* Every directory the call can look at or create.
DirUniverse ==
    {Root, Cwd, LabDir, SentinelDir, BaseDir, <<"/", "base", "papers">>, MovedDir,
     <<"/", "base", "papers", "w">>, <<"/", "base", "papers", "nodir">>}

LabNames == {"doc.md", "other.md", "notes.txt"}

\* Listings of the lab directory: up to MaxEntries distinct names in any order.
LabListings ==
    {ls \in SeqsUpTo(LabNames, MaxEntries) :
        \A i \in 1..Len(ls) : \A j \in 1..Len(ls) : i # j => ls[i] # ls[j]}

PathPool ==
    { <<"lab", "doc.md">>, <<"lab", "missing.md">>, <<"missing.md">>, <<"lab">>,
      <<"deepcode_lab", "doc.md">>, <<"nodir", "missing.md">>,
      <<"/", "w", "lab", "missing.md">> }

InputPool ==
    {FileInput(s, "paper_path", p) : s \in {"json", "fenced", "prose", "dict"}, p \in PathPool}
        \cup {FileInput("path", "none", p) : p \in PathPool}
        \cup {FileInput("hint", "none", p) : p \in {q \in PathPool : PathEndsWith(q, DotMd)}}
        \cup {FileInput(s, "no_key", NonePath) : s \in {"json", "fenced", "prose", "dict"}}
        \cup {FileInput(s, "empty", NonePath) : s \in {"json", "fenced", "dict"}}
        \cup {FileInput("json", "array", NonePath), FileInput("text", "none", NonePath),
              FileInput("other", "none", NonePath)}

\* The bytes every file of the file system holds: "a", "# a\n## b\na", a PDF.
DocPool ==
    { <<LA>>, <<HASH, SP, LA, NL, HASH, HASH, SP, LB, NL, LA>>, PdfMagic \o <<LA>> }

\* The detector's behaviours considered for a call.
CallChardet ==
    {ChardetOutcome("ImportError", None, 0), ChardetOutcome("result", "ascii", 100),
     ChardetOutcome("result", "UTF-16", 100)}

InitInput ==
    /\ dirs \in {{Root, Cwd, LabDir, SentinelDir, BaseDir},
                 {Root, Cwd, LabDir, SentinelDir, BaseDir, <<"/", "base", "papers">>, MovedDir}}
    /\ \E lab \in LabListings : \E here \in {<<>>, <<"doc.md">>} :
        listing = [dir \in DirUniverse |->
                      IF dir = LabDir THEN lab
                      ELSE IF dir = Cwd THEN here
                      ELSE IF dir = SentinelDir THEN <<"doc.md">>
                      ELSE IF dir = MovedDir /\ dir \in dirs THEN <<"doc.md">>
                      ELSE <<>>]
    /\ doc \in DocPool
    \* a PDF is looked at on one file system only
    /\ IsPdf(doc) => listing[LabDir] = <<"doc.md">> /\ listing[Cwd] = <<>> /\ MovedDir \notin dirs
    /\ dirs_before = dirs
    /\ file_input = NoInput
    /\ base_dir = NonePath
    /\ paper_dir = NonePath
    /\ fallback = "none"
    /\ response = NoResponse
    /\ ipc = "call"
    /\ file_path = NonePath
    /\ content = <<>>
    /\ parsed = NoTree
    /\ standardized_text = <<>>
    /\ reparsed = NoTree
    /\ ppc = "idle"
    /\ IdleOrganize
    /\ IdleConcurrent
    /\ IdleHelpers
    /\ file_state = "absent"
    /\ file_bytes = <<>>
    /\ rpc = "idle"
    /\ chardet = NotDetected
    /\ detected_encoding = None
    /\ encodings_to_try = <<>>
    /\ unique_encodings = <<>>
    /\ enc_idx = 0
    /\ last_error = None
    /\ attempts = <<>>
    /\ opens = 0
    /\ open_handles = 0
    /\ ret = NoReturn

othersInput == <<varsOrganize, dirs_before, reparsed, ppc, file_state, file_bytes, rpc, chardet,
                 detected_encoding, encodings_to_try, unique_encodings, enc_idx,
                 last_error, attempts, opens, open_handles, ret, varsConcurrent, varsHelpers>>

\* The call, up to "if not paper_dir": the path hint, extract_file_path and
\* the adjustment to base_dir with its os.makedirs.
DeriveDirectory ==
    /\ ipc = "call"
    /\ \E fi \in InputPool : \E base \in {NonePath, BaseDir} :
        LET r == ResolveDirectory(dirs, listing, fi, base)
        IN  /\ file_input' = fi
            /\ base_dir' = base
            /\ dirs' = r.dirs
            /\ paper_dir' = r.paper_dir
            /\ IF r.raised
               THEN /\ response' = OnException(r.error)
                    /\ ipc' = "done"
               ELSE /\ response' = response
                    /\ ipc' = "file"
    /\ UNCHANGED <<listing, doc, fallback, file_path, content, parsed, standardized_text,
                   othersInput>>

\* "Get the actual file path", up to "if not file_path".
DeriveFile ==
    /\ ipc = "file"
    /\ LET r == ResolveFile(dirs, listing, file_input, paper_dir)
       IN  /\ file_path' = r.file_path
           /\ paper_dir' = r.paper_dir
           /\ fallback' = r.fallback
           /\ IF r.raised
              THEN /\ response' = OnException(r.error)
                   /\ ipc' = "done"
              ELSE /\ response' = response
                   /\ ipc' = "read"
    /\ UNCHANGED <<dirs, listing, doc, file_input, base_dir, content, parsed,
                   standardized_text, othersInput>>

\* Read file content, parse it, render it and return the four fields.
ReadAndRender ==
    /\ ipc = "read"
    /\ \E det \in CallChardet :
        LET r == ReadFileContent(FileState(dirs, listing, file_path),
                                 BaseName(file_path), doc, det)
            tree == ParseMarkdownSections(r.text)
        IN  IF r.outcome = "raise"
            THEN /\ response' = OnException(r.via)
                 /\ UNCHANGED <<content, parsed, standardized_text>>
            ELSE /\ content' = r.text
                 /\ parsed' = tree
                 /\ standardized_text' = StandardizeOutput(tree)
                 /\ response' = Response("ok", None, paper_dir, file_path, tree,
                                         StandardizeOutput(tree))
    /\ ipc' = "done"
    /\ UNCHANGED <<dirs, listing, doc, file_input, base_dir, paper_dir, fallback,
                   file_path, othersInput>>

NextInput == DeriveDirectory \/ DeriveFile \/ ReadAndRender

SpecInput == InitInput /\ [][NextInput]_vars

----------------------------------------------------------------------------
\* Specification of concurrent process_file_input invocations.  Each
\* invocation has its own locals; the file system is shared.  An invocation
\* takes its three parts as separate steps, interleaved with the other's.

Invocations == {"first", "second"}

\* The directories at the start.
StartDirs == {Root, Cwd, LabDir, SentinelDir, BaseDir}

\* The documents of the two invocations: the first works on lab/doc.md, the
\* second on lab/other.md or deepcode_lab/doc.md.
CallPaths(c) ==
    IF c = "first" THEN {<<"lab", "doc.md">>, <<"lab", "missing.md">>}
    ELSE {<<"lab", "other.md">>, <<"deepcode_lab", "doc.md">>}

CallInputs(c) ==
    {FileInput("path", "none", p) : p \in CallPaths(c)}
        \cup {FileInput("dict", "paper_path", p) : p \in CallPaths(c)}

\* The locals of one invocation.
Locals(pc, input, base, pd, fp, fb, resp) ==
    [ipc |-> pc, file_input |-> input, base_dir |-> base, paper_dir |-> pd,
     file_path |-> fp, fallback |-> fb, response |-> resp]

InitConcurrent ==
    /\ dirs = StartDirs
    /\ \E lab \in LabListings :
        listing = [dir \in DirUniverse |->
                      IF dir = LabDir THEN lab
                      ELSE IF dir = SentinelDir THEN <<"doc.md">>
                      ELSE <<>>]
    /\ doc \in {b \in DocPool : ~IsPdf(b)}
    /\ calls \in [Invocations ->
                    {Locals("call", fi, base, NonePath, NonePath, "none", NoResponse) :
                        fi \in CallInputs("first") \cup CallInputs("second"),
                        base \in {NonePath, BaseDir}}]
    /\ \A c \in Invocations : calls[c].file_input \in CallInputs(c)
    /\ dirs_before = dirs
    /\ file_input = NoInput
    /\ base_dir = NonePath
    /\ paper_dir = NonePath
    /\ fallback = "none"
    /\ response = NoResponse
    /\ ipc = "idle"
    /\ global_logger = NoInstance
    /\ default_service = NoInstance
    /\ constructed = <<>>
    /\ threads = <<>>
    /\ IdleHelpers
    /\ IdleOrganize
    /\ IdlePipeline
    /\ IdleRead

othersConcurrent == <<varsOrganize, varsPipeline, varsRead, varsHelpers, dirs_before, listing, doc, file_input,
                      base_dir, paper_dir, fallback, response, ipc, global_logger,
                      default_service, constructed, threads>>

\* Invocation c: the path hint, extract_file_path and the adjustment to
\* base_dir with its os.makedirs.
CallDeriveDirectory(c) ==
    /\ calls[c].ipc = "call"
    /\ LET r == ResolveDirectory(dirs, listing, calls[c].file_input, calls[c].base_dir)
       IN  /\ dirs' = r.dirs
           /\ calls' = [calls EXCEPT ![c] =
                          Locals(IF r.raised THEN "done" ELSE "file", @.file_input,
                                 @.base_dir, r.paper_dir, @.file_path, @.fallback,
                                 IF r.raised THEN OnException(r.error) ELSE @.response)]
    /\ UNCHANGED othersConcurrent

\* Invocation c: "Get the actual file path".
CallDeriveFile(c) ==
    /\ calls[c].ipc = "file"
    /\ LET r == ResolveFile(dirs, listing, calls[c].file_input, calls[c].paper_dir)
       IN  calls' = [calls EXCEPT ![c] =
                       Locals(IF r.raised THEN "done" ELSE "read", @.file_input,
                              @.base_dir, r.paper_dir, r.file_path, r.fallback,
                              IF r.raised THEN OnException(r.error) ELSE @.response)]
    /\ UNCHANGED <<dirs, othersConcurrent>>

\* Invocation c: read the file, parse it, render it and return.
CallReadAndRender(c) ==
    /\ calls[c].ipc = "read"
    /\ \E det \in CallChardet :
        LET r == ReadFileContent(FileState(dirs, listing, calls[c].file_path),
                                 BaseName(calls[c].file_path), doc, det)
            tree == ParseMarkdownSections(r.text)
        IN  calls' = [calls EXCEPT ![c] =
                        Locals("done", @.file_input, @.base_dir, @.paper_dir, @.file_path,
                               @.fallback,
                               IF r.outcome = "raise" THEN OnException(r.via)
                               ELSE Response("ok", None, @.paper_dir, @.file_path, tree,
                                             StandardizeOutput(tree)))]
    /\ UNCHANGED <<dirs, othersConcurrent>>

NextConcurrent ==
    \E c \in Invocations :
        CallDeriveDirectory(c) \/ CallDeriveFile(c) \/ CallReadAndRender(c)

SpecConcurrent == InitConcurrent /\ [][NextConcurrent]_vars

----------------------------------------------------------------------------
\* Specification of the first calls to get_llm_logger and
\* get_default_search_service from concurrent threads.  An instance is named
\* by its number in the order of construction.

Threads == {"t1", "t2", "t3"}

Getters == {"get_llm_logger", "get_default_search_service"}

Thread(pc, getter, got) == [pc |-> pc, getter |-> getter, got |-> got]

\* The global a getter works on.
GlobalOf(getter) ==
    IF getter = "get_llm_logger" THEN global_logger ELSE default_service

InitSingleton ==
    /\ global_logger = NoInstance
    /\ default_service = NoInstance
    /\ constructed = [g \in Getters |-> 0]
    /\ threads = [t \in Threads |-> Thread("idle", None, NoInstance)]
    /\ calls = <<>>
    /\ IdleHelpers
    /\ IdleOrganize
    /\ IdlePipeline
    /\ IdleRead
    /\ IdleInput

othersSingleton == <<varsOrganize, varsPipeline, varsRead, varsInput, varsHelpers, calls>>

\* Thread t calls one of the getters.
Enter(t) ==
    /\ threads[t].pc = "idle"
    /\ \E g \in Getters : threads' = [threads EXCEPT ![t] = Thread("check", g, NoInstance)]
    /\ UNCHANGED <<global_logger, default_service, constructed, othersSingleton>>

\* if _global_logger is None / if _default_service is None
CheckNone(t) ==
    /\ threads[t].pc = "check"
    /\ threads' = [threads EXCEPT ![t].pc =
                      IF GlobalOf(threads[t].getter) = NoInstance THEN "create"
                      ELSE "return"]
    /\ UNCHANGED <<global_logger, default_service, constructed, othersSingleton>>

\* _global_logger = SimpleLLMLogger()
\* _default_service = SerperSearchService.create_from_config()
Create(t) ==
    /\ threads[t].pc = "create"
    /\ constructed' = [constructed EXCEPT ![threads[t].getter] = @ + 1]
    /\ IF threads[t].getter = "get_llm_logger"
       THEN /\ global_logger' = constructed'[threads[t].getter]
            /\ UNCHANGED default_service
       ELSE /\ default_service' = constructed'[threads[t].getter]
            /\ UNCHANGED global_logger
    /\ threads' = [threads EXCEPT ![t].pc = "return"]
    /\ UNCHANGED othersSingleton

\* return _global_logger / return _default_service
ReturnInstance(t) ==
    /\ threads[t].pc = "return"
    /\ threads' = [threads EXCEPT ![t] =
                      Thread("done", @.getter, GlobalOf(threads[t].getter))]
    /\ UNCHANGED <<global_logger, default_service, constructed, othersSingleton>>

NextSingleton ==
    \E t \in Threads : Enter(t) \/ CheckNone(t) \/ Create(t) \/ ReturnInstance(t)

SpecSingleton == InitSingleton /\ [][NextSingleton]_vars

----------------------------------------------------------------------------
\* C1: in the tree built by _organize_sections from any flat sequence with
\* levels in 1..6, every subsection of every section has a strictly greater
\* level than that section.
C1_ChildrenDeeper ==
    \A i \in 1..Len(sections) :
        \A k \in 1..Len(subsections[i]) :
            sections[subsections[i][k]].level > sections[i].level

\* A finished tree with a section nested two levels below a root.
C1_Witness ==
    /\ opc = "done"
    /\ \E i \in 1..Len(sections) :
        \E k \in 1..Len(subsections[i]) :
            /\ i \in Range(result)
            /\ subsections[subsections[i][k]] # <<>>

\* C3: for headings at levels [1, 3, 2] the tree has the single root at
\* level 1 whose subsections are, in order, the level-3 and the level-2
\* section, neither of which has subsections.
C3_SkippedLevel ==
    (opc = "done" /\ Levels(sections) = <<1, 3, 2>>) =>
        /\ result = <<1>>
        /\ subsections = <<<<2, 3>>, <<>>, <<>>>>

C3_Witness == opc = "done" /\ Levels(sections) = <<1, 3, 2>>

\* A heading line as the scanner's grammar defines it: one to six '#', one or
\* more whitespace characters, then at least one more character.
IsHeadingLine(line) ==
    \E h \in 1..6 : \E w \in 1..Len(line) :
        /\ Len(line) > h + w
        /\ \A i \in 1..h : line[i] = HASH
        /\ \A i \in (h + 1)..(h + w) : IsSpace(line[i])

\* A heading line whose text after the marker is not blank.
IsTitledHeadingLine(line) ==
    /\ IsHeadingLine(line)
    /\ \E i \in 1..Len(line) : ~IsSpace(line[i]) /\ line[i] # HASH

NoHeadingLine(text) == \A k \in 1..Len(Split(text)) : ~IsHeadingLine(Split(text)[k])

\* C2: parsing a text of heading lines and plain content lines, rendering
\* the tree and parsing the rendered text again yields the same pre-order
\* sequence of (level, title) pairs and the same nesting.
C2_RoundTrip ==
    (/\ ppc = "done"
     /\ \A k \in 1..Len(Split(content)) :
            IsHeadingLine(Split(content)[k]) => IsTitledHeadingLine(Split(content)[k]))
        => /\ LevelTitles(reparsed) = LevelTitles(parsed)
           /\ TreeShape(reparsed) = TreeShape(parsed)

\* C10: a text without any heading line parses to the empty sequence of
\* sections.
C10_NoHeadingNoSection ==
    (ppc # "parse" /\ NoHeadingLine(content)) =>
        /\ parsed.flat = <<>>
        /\ parsed.result = <<>>

\* A parsed text of several non-heading lines, one of them starting with '#'.
C10_Witness ==
    /\ ppc = "render"
    /\ NoHeadingLine(content)
    /\ Len(Split(content)) >= 2
    /\ \E k \in 1..Len(Split(content)) :
        Split(content)[k] # <<>> /\ Split(content)[k][1] = HASH

----------------------------------------------------------------------------
\* C4: for an existing, readable file, whatever its bytes and whatever the
\* detector answers, read_file_content never raises and ends by returning a
\* text.
C4_ResolverTotality ==
    file_state = "readable" =>
        /\ ret.outcome # "raise"
        /\ rpc = "done" => ret.outcome = "return"

\* A file that is not valid UTF-8 has been read after two failed attempts.
C4_Witness ==
    /\ rpc = "done"
    /\ file_state = "readable"
    /\ ~Utf8From(file_bytes, 1, "strict").ok
    /\ Len(attempts) >= 3
    /\ ret.outcome = "return"

\* C5: for a file whose bytes start with %PDF under a path ending in .md,
\* read_file_content returns the diagnostic document, and neither the
\* detector nor any decoder has run.
C5_PdfShortCircuit ==
    (/\ file_state = "readable"
     /\ StartsWith(file_bytes, PdfMagic)
     /\ PathEndsWith(file_path, DotMd))
        => /\ chardet = NotDetected
           /\ attempts = <<>>
           /\ rpc \in {"start", "done"}
           /\ rpc = "done" =>
                ret = Returned("pdf", DiagnosticDocument(NameText(Last(file_path)),
                                                         Len(file_bytes)))

\* The call has returned for a .md file holding %PDF and more bytes.
C5_Witness ==
    /\ rpc = "done"
    /\ file_state = "readable"
    /\ StartsWith(file_bytes, PdfMagic)
    /\ Len(file_bytes) > Len(PdfMagic)
    /\ PathEndsWith(file_path, DotMd)
    /\ ret.outcome = "return"

\* The candidate list has been built after the detector made a guess.
GuessGated ==
    /\ rpc \in {"try", "done"}
    /\ unique_encodings # <<>>
    /\ chardet.kind = "result"
    /\ chardet.encoding # None

IsFallbackName(enc) ==
    \E i \in 1..Len(FallbackEncodings) : Lower(FallbackEncodings[i]) = Lower(enc)

\* C6 as stated: the detector's guess is in the candidate list if and only
\* if its confidence is at least 0.70.
C6_GateAsStated ==
    GuessGated =>
        (chardet.encoding \in Range(unique_encodings) <=> chardet.confidence >= 70)

\* C6: with a confidence of at least 0.70 the guess is accepted
\* and is the first candidate; below 0.70 it is discarded and the candidate
\* list is exactly the seven fixed fallbacks, so that a discarded guess is in
\* the list only when it is itself one of the fallbacks.
C6_ConfidenceGate ==
    GuessGated =>
        /\ chardet.confidence >= 70 =>
                /\ detected_encoding = chardet.encoding
                /\ unique_encodings[1] = chardet.encoding
        /\ chardet.confidence < 70 =>
                /\ detected_encoding = None
                /\ unique_encodings = FallbackEncodings
        /\ ~IsFallbackName(chardet.encoding) =>
                (chardet.encoding \in Range(unique_encodings)
                    <=> chardet.confidence >= 70)

\* A guess outside the fallbacks, at exactly 0.70, heads the list.
C6_Witness ==
    /\ GuessGated
    /\ chardet.confidence = 70
    /\ ~IsFallbackName(chardet.encoding)
    /\ unique_encodings[1] = chardet.encoding

----------------------------------------------------------------------------
\* The path a call asks for, when file_input is a bare path string, a JSON
\* string or a mapping.
AsksForPath ==
    \/ file_input.shape = "path"
    \/ file_input.shape \in {"json", "dict"} /\ file_input.payload = "paper_path"

\* The parent directory of the path asked for.
ParentDir == DirName(AbsPath(file_input.path))

\* The markdown files of a directory.
MarkdownIn(directory) ==
    {n \in Range(Listing(listing, directory)) : EndsWith(NameText(n), DotMd)}

\* C7: when the requested path does not exist and its parent directory
\* holds exactly one .md file, the call succeeds and file_path is that file,
\* for a bare path string, a JSON string and a mapping alike.
C7_DirectoryFallback ==
    (/\ ipc = "done"
     /\ AsksForPath
     /\ ~Exists(dirs, listing, file_input.path)
     /\ ParentDir \in dirs
     /\ Cardinality(MarkdownIn(ParentDir)) = 1)
        => /\ response.status = "ok"
           /\ \E n \in MarkdownIn(ParentDir) :
                AbsPath(response.file_path) = JoinPath(ParentDir, <<n>>)

\* The heading lines of a text.
HeadingLines(text) == {k \in 1..Len(Split(text)) : IsHeadingLine(Split(text)[k])}

\* C8 as stated: a successful call returns paper_dir, file_path, sections and
\* standardized_text, none of them empty.
C8_NoneEmpty ==
    (ipc = "done" /\ response.status = "ok")
        => /\ Truthy(response.paper_dir)
           /\ Truthy(response.file_path)
           /\ response.sections.result # <<>>
           /\ response.standardized_text # <<>>

\* C8: a successful call returns the four fields; paper_dir and file_path are
\* not empty, sections holds one section per heading line of the document
\* read, and sections and standardized_text are empty exactly when the
\* document has no heading line.
C8_FieldsOnSuccess ==
    (ipc = "done" /\ response.status = "ok")
        => /\ Truthy(response.paper_dir)
           /\ Truthy(response.file_path)
           /\ Len(response.sections.flat) = Cardinality(HeadingLines(content))
           /\ response.sections.result = <<>> <=> HeadingLines(content) = {}
           /\ response.standardized_text = <<>> <=> HeadingLines(content) = {}

C8_Witness ==
    /\ ipc = "done"
    /\ response.status = "ok"
    /\ HeadingLines(content) = {}
    /\ response.sections.result = <<>>
    /\ response.standardized_text = <<>>
    /\ Truthy(response.paper_dir)
    /\ Truthy(response.file_path)

\* C9: the call ends in ValueError and returns no result when no directory
\* can be derived from the input, when the JSON or mapping has no paper_path,
\* and when the directory scanned as fallback holds no markdown file.
C9_InputErrors ==
    (/\ ipc = "done"
     /\ \/ file_input.shape \in {"text", "other"}
        \/ file_input.shape \in {"json", "fenced", "prose", "dict"}
              /\ file_input.payload # "paper_path"
        \/ fallback = "not_found")
        => /\ response.status = "ValueError"
           /\ response.file_path = NonePath
           /\ response.sections = NoTree

C9_Witness ==
    /\ ipc = "done"
    /\ fallback = "not_found"
    /\ file_input.shape = "dict"
    /\ response.status = "ValueError"

----------------------------------------------------------------------------
\* The position of the first heading line of a text; one past the last line
\* when the text has none.
FirstHeading(text) ==
    IF HeadingLines(text) = {} THEN Len(Split(text)) + 1
    ELSE CHOOSE k \in HeadingLines(text) : \A j \in HeadingLines(text) : k <= j

\* The text from its first heading line on.
FromFirstHeading(text) ==
    Join(SubSeq(Split(text), FirstHeading(text), Len(Split(text))))

\* C11: the lines before the first heading line are discarded: the parsed
\* tree is the tree of the text from its first heading line on, it has one
\* section per heading line, and when the first heading is the last line its
\* section has no content.
C11_PreambleDiscarded ==
    ppc # "parse" =>
        /\ parsed = ParseMarkdownSections(FromFirstHeading(content))
        /\ Len(parsed.flat) = Cardinality(HeadingLines(content))
        /\ (FirstHeading(content) = Len(Split(content)) /\ Len(parsed.flat) = 1)
              => parsed.flat[1].content = <<>>

\* A parsed text whose first heading is its last line, after a line "a".
C11_Witness ==
    /\ ppc = "render"
    /\ FirstHeading(content) = Len(Split(content))
    /\ FirstHeading(content) >= 2
    /\ Split(content)[1] = <<LA>>
    /\ Len(parsed.flat) = 1
    /\ parsed.flat[1].content = <<>>

----------------------------------------------------------------------------
\* The places of the tree that hold section i: <<0, k>> is position k of
\* result, <<j, k>> position k of the subsections of section j.
Places(i) ==
    {<<0, k>> : k \in {k \in 1..Len(result) : result[k] = i}}
        \cup {jk \in (1..Len(sections)) \X (1..Len(sections)) :
                /\ jk[2] <= Len(subsections[jk[1]])
                /\ subsections[jk[1]][jk[2]] = i}

\* C12: every section the loop has handled is at exactly one place of the
\* tree, a root or a subsection of one section that precedes it, a section
\* not yet handled is at none, and the tree holds input sections only.
C12_ExactlyOnce ==
    /\ \A i \in 1..Len(sections) :
        /\ i <= pos => Cardinality(Places(i)) = 1
        /\ i > pos => Places(i) = {}
    /\ Range(result) \subseteq 1..Len(sections)
    /\ \A j \in 1..Len(sections) :
        \A k \in 1..Len(subsections[j]) :
            subsections[j][k] \in (j + 1)..Len(sections)

\* A finished tree with two roots and a nested section.
C12_Witness ==
    /\ opc = "done"
    /\ Len(sections) >= 3
    /\ Len(result) >= 2
    /\ \E j \in 1..Len(sections) : subsections[j] # <<>>
    /\ \A i \in 1..Len(sections) : Cardinality(Places(i)) = 1

----------------------------------------------------------------------------
\* C13: every section of the parsed tree has a title that is trimmed and not
\* empty.
C13_TitleNonEmpty ==
    ppc # "parse" =>
        \A i \in 1..Len(parsed.flat) :
            /\ parsed.flat[i].title # <<>>
            /\ parsed.flat[i].title = Strip(parsed.flat[i].title)

----------------------------------------------------------------------------
\* C14: a successful call returns an absolute file_path and, as paper_dir,
\* the directory that contains that file.
C14_CanonicalPaths ==
    (ipc = "done" /\ response.status = "ok")
        => /\ IsAbs(response.file_path)
           /\ AbsPath(response.paper_dir) = DirName(AbsPath(response.file_path))

----------------------------------------------------------------------------
\* The directory extract_file_path derives for the call that is starting.
DerivedDir == ExtractFilePath(dirs, listing, HintToDict(file_input'))

\* The call that is starting has a base_dir and a derived directory.
AdjustsToBase ==
    /\ ipc = "call"
    /\ ipc' # "call"
    /\ Truthy(base_dir')
    /\ ~DerivedDir.raised
    /\ Truthy(DerivedDir.value)

EndsInSentinel(p) == \E s \in LabSentinels : PathEndsWith(p, s)

\* C15 as stated: with base_dir, a derived directory ending in a sentinel
\* name is rewritten to base_dir/papers/<original directory name>, and that
\* directory exists afterwards.
C15_SentinelUnderPapers ==
    [][(AdjustsToBase /\ EndsInSentinel(DerivedDir.value))
          => /\ paper_dir' = JoinPath(base_dir', <<"papers", BaseName(DerivedDir.value)>>)
             /\ IsDir(dirs', listing', paper_dir')]_vars

\* C15: with base_dir, a derived directory ending in a sentinel name is
\* rewritten to base_dir itself, any other derived directory to
\* base_dir/papers/<original directory name>, and the rewritten directory
\* exists afterwards.
C15_SentinelMovesToBase ==
    [][AdjustsToBase
          => /\ EndsInSentinel(DerivedDir.value) => paper_dir' = base_dir'
             /\ ~EndsInSentinel(DerivedDir.value)
                  => paper_dir' = JoinPath(base_dir', <<"papers", BaseName(DerivedDir.value)>>)
             /\ IsDir(dirs', listing', paper_dir')]_vars

\* A call on deepcode_lab/doc.md with base_dir, after the adjustment.
C15_Witness ==
    /\ ipc = "file"
    /\ base_dir = BaseDir
    /\ file_input.path = <<"deepcode_lab", "doc.md">>
    /\ paper_dir = BaseDir
    /\ BaseDir \in dirs

----------------------------------------------------------------------------
\* C16: under every interleaving, an invocation that has ended has the
\* outcome process_file_input gives for its arguments on the file system of
\* the start, where no other invocation runs.
C16_NoInterference ==
    \A c \in Invocations :
        calls[c].ipc = "done" =>
            \E det \in CallChardet :
                calls[c].response =
                    ProcessFileInput(StartDirs, listing, doc, calls[c].file_input,
                                     calls[c].base_dir, det).response

\* Both invocations were given base_dir, wrote to the same directory under
\* it and have ended, the second after the first had created the directory.
C16_Witness ==
    /\ \A c \in Invocations :
        /\ calls[c].ipc = "done"
        /\ calls[c].base_dir = BaseDir
        /\ calls[c].response.status = "ok"
    /\ calls["first"].response.paper_dir = calls["second"].response.paper_dir
    /\ calls["first"].response.file_path # calls["second"].response.file_path
    /\ MovedDir \in dirs

----------------------------------------------------------------------------
\* C17: under every interleaving of first calls, each default instance is
\* constructed at most once and all callers of a getter receive the same
\* instance.
C17_GuardedInit ==
    /\ \A g \in DOMAIN constructed : constructed[g] <= 1
    /\ \A t \in DOMAIN threads : \A u \in DOMAIN threads :
        (/\ threads[t].pc = "done"
         /\ threads[u].pc = "done"
         /\ threads[t].getter = threads[u].getter)
            => threads[t].got = threads[u].got

----------------------------------------------------------------------------
\* The number of '#' characters a line starts with.
LeadingHashes(line) ==
    Cardinality({i \in 1..Len(line) : \A j \in 1..i : line[j] = HASH})

\* The position of the n-th heading line of a text; one past the last line
\* beyond the last heading.
HeadingAt(text, n) ==
    IF n > Cardinality(HeadingLines(text)) THEN Len(Split(text)) + 1
    ELSE CHOOSE k \in HeadingLines(text) :
            Cardinality({j \in HeadingLines(text) : j < k}) = n - 1

\* The lines between the n-th heading line and the next one.
LinesUnder(text, n) ==
    SubSeq(Split(text), HeadingAt(text, n) + 1, HeadingAt(text, n + 1) - 1)

\* C18: the scan yields one section per heading line, in the order of the
\* text; the level of a section is the number of '#' its heading starts
\* with, between 1 and 6, and its content is the trimmed join of the lines
\* between its heading and the next heading or the end of the text.
C18_OneSectionPerHeading ==
    ppc # "parse" =>
        /\ Len(parsed.flat) = Cardinality(HeadingLines(content))
        /\ \A n \in 1..Len(parsed.flat) :
            /\ parsed.flat[n].level = LeadingHashes(Split(content)[HeadingAt(content, n)])
            /\ parsed.flat[n].level \in 1..6
            /\ parsed.flat[n].content = Strip(Join(LinesUnder(content, n)))

\* Two headings, the first with a line of content that trimming changes.
C18_Witness ==
    /\ ppc = "render"
    /\ Len(parsed.flat) = 2
    /\ LinesUnder(content, 1) = << <<SP, HASH, SP, LB>> >>
    /\ parsed.flat[1].content = <<HASH, SP, LB>>
    /\ parsed.flat[2].content = <<>>

----------------------------------------------------------------------------
\* The nearest section before section i whose level is strictly smaller; 0
\* when there is none.
NearestShallower(i) ==
    LET S == {j \in 1..(i - 1) : sections[j].level < sections[i].level}
    IN  IF S = {} THEN 0 ELSE CHOOSE j \in S : \A k \in S : k <= j

Increasing(seq) == \A k \in 1..Len(seq) : \A l \in 1..Len(seq) : k < l => seq[k] < seq[l]

\* C19: a section the loop has handled is a subsection of the nearest
\* preceding section of strictly smaller level, it is a root exactly when no
\* preceding section has a strictly smaller level, and it was appended as
\* the last element of the list that holds it.
C19_NearestShallowerParent ==
    /\ \A i \in 1..pos :
        /\ NearestShallower(i) = 0 <=> i \in Range(result)
        /\ NearestShallower(i) # 0 => i \in Range(subsections[NearestShallower(i)])
    /\ pos >= 1 =>
        IF NearestShallower(pos) = 0 THEN Last(result) = pos
        ELSE Last(subsections[NearestShallower(pos)]) = pos
    /\ Increasing(result)
    /\ \A j \in 1..Len(sections) : Increasing(subsections[j])

\* Levels [1, 2, 3, 2]: the fourth section skips back over the second and
\* third to the first.
C19_Witness ==
    /\ opc = "done"
    /\ Levels(sections) = <<1, 2, 3, 2>>
    /\ NearestShallower(4) = 1
    /\ subsections[1] = <<2, 4>>
    /\ subsections[2] = <<3>>
    /\ result = <<1>>

----------------------------------------------------------------------------
\* The heading of section i of the parsed tree as rendered, its content as
\* rendered, and what follows them when no rule is emitted: the heading of
\* the first subsection, or the section's separator.
RenderedHead(i) ==
    <<NL>> \o Repeat(HASH, parsed.flat[i].level) \o <<SP>> \o parsed.flat[i].title \o <<NL>>

RenderedBody(i) ==
    IF parsed.flat[i].content # <<>> THEN <<NL>> \o parsed.flat[i].content \o <<NL>>
    ELSE <<>>

RenderedNext(i) ==
    IF parsed.subsections[i] # <<>> THEN RenderedHead(parsed.subsections[i][1])
    ELSE <<NL>> \o Repeat(EQ, SeparatorWidth) \o <<NL>>

\* "\n---\n"
ShortRule == <<NL, DASH, DASH, DASH, NL>>

\* The sections with both content and subsections.
RuledSections ==
    {i \in 1..Len(parsed.flat) :
        parsed.flat[i].content # <<>> /\ parsed.subsections[i] # <<>>}

Occurs(part, text) ==
    \E k \in 1..(Len(text) - Len(part) + 1) : SubSeq(text, k, k + Len(part) - 1) = part

\* C20: the rendered text holds one "---" line per section that has both
\* content and subsections and no other; in such a section the rule stands
\* after the content and before the heading of the first subsection, and in
\* every other section the content is followed directly by the first
\* subsection's heading or by the separator.
C20_ShortRule ==
    ppc \in {"reparse", "done"} =>
        /\ Cardinality({k \in 1..Len(Split(standardized_text)) :
                            Split(standardized_text)[k] = <<DASH, DASH, DASH>>})
              = Cardinality(RuledSections)
        /\ \A i \in 1..Len(parsed.flat) :
            Occurs(RenderedHead(i) \o RenderedBody(i)
                       \o (IF i \in RuledSections THEN ShortRule ELSE <<>>)
                       \o RenderedNext(i),
                   standardized_text)

\* A rendered tree with a section that has content and a subsection, and a
\* subsection that has neither.
C20_Witness ==
    /\ ppc = "reparse"
    /\ RuledSections = {1}
    /\ Len(parsed.flat) = 2
    /\ Occurs(parsed.flat[1].content \o <<NL>> \o ShortRule \o RenderedHead(2),
              standardized_text)

----------------------------------------------------------------------------
\* "\n" + "=" * 80 + "\n"
RenderedSeparator == <<NL>> \o Repeat(EQ, SeparatorWidth) \o <<NL>>

\* The number of sections of the parsed tree whose last descendant in
\* rendering order is section i (a section without subsections is its own).
ClosedAfter(i) ==
    Cardinality({a \in 1..Len(parsed.flat) : Last(PreOrder(parsed, a)) = i})

\* What one section contributes to the rendered text before the heading of
\* the next section: its heading, its content, its rule, and the separators
\* of the sections that end with it.
RenderedSection(i) ==
    RenderedHead(i) \o RenderedBody(i)
        \o (IF i \in RuledSections THEN ShortRule ELSE <<>>)
        \o Flatten([k \in 1..ClosedAfter(i) |-> RenderedSeparator])

\* C21: the rendered text is, section by section in depth-first pre-order
\* and root order, one heading line (level-many # and the title), the
\* content, and then one separator of 80 "=" for the section itself and for
\* every ancestor it is the last descendant of, so that a section's separator
\* comes after those of all its descendants and before the heading of its
\* next sibling; roots are joined by one newline; the text holds exactly one
\* separator line per section.
C21_RenderLayout ==
    ppc \in {"reparse", "done"} =>
        LET po == TreePreOrder(parsed)
        IN  /\ standardized_text =
                Flatten([k \in 1..Len(po) |->
                    (IF k > 1 /\ po[k] \in Range(parsed.result) THEN <<NL>> ELSE <<>>)
                        \o RenderedSection(po[k])])
            /\ Cardinality({k \in 1..Len(Split(standardized_text)) :
                                Split(standardized_text)[k] = Repeat(EQ, SeparatorWidth)})
                  = Len(parsed.flat)

\* A rendered tree of a root with a subsection, followed by a second root:
\* the subsection is the last descendant of the first root.
C21_Witness ==
    /\ ppc = "done"
    /\ Levels(parsed.flat) = <<1, 2, 1>>
    /\ parsed.result = <<1, 3>>
    /\ ClosedAfter(2) = 2

----------------------------------------------------------------------------
\* The accepted detected encoding, if any, followed by the seven fallbacks.
CandidatesInOrder ==
    (IF detected_encoding # None THEN <<detected_encoding>> ELSE <<>>)
        \o <<"utf-8", "utf-8-sig", "latin1", "cp1252", "ascii", "utf-16", "utf-32">>

\* The positions of that list whose name, ignoring case, occurs at no earlier
\* position.
FirstOccurrences ==
    {k \in 1..Len(CandidatesInOrder) :
        \A j \in 1..(k - 1) : Lower(CandidatesInOrder[j]) # Lower(CandidatesInOrder[k])}

\* The i-th smallest member of a set of numbers.
NthOf(S, i) == CHOOSE k \in S : Cardinality({j \in S : j < k}) = i - 1

\* C22: once built, the candidate list is the accepted detected encoding (if
\* any) followed by utf-8, utf-8-sig, latin1, cp1252, ascii, utf-16, utf-32
\* with every later case-insensitive duplicate removed and the order kept; the
\* accepted detected encoding is its first entry and no two entries are equal
\* ignoring case.
C22_CandidateList ==
    rpc \in {"try", "done"} /\ enc_idx > 0 =>
        /\ Len(unique_encodings) = Cardinality(FirstOccurrences)
        /\ \A i \in 1..Len(unique_encodings) :
            unique_encodings[i] = CandidatesInOrder[NthOf(FirstOccurrences, i)]
        /\ detected_encoding # None => unique_encodings[1] = detected_encoding
        /\ \A i, j \in 1..Len(unique_encodings) :
            i # j => Lower(unique_encodings[i]) # Lower(unique_encodings[j])

\* The detector's answer UTF-16 was accepted: it comes first and the fallback
\* utf-16 is dropped as its duplicate.
C22_Witness ==
    /\ rpc = "try"
    /\ detected_encoding = "UTF-16"
    /\ unique_encodings = <<"UTF-16", "utf-8", "utf-8-sig", "latin1", "cp1252", "ascii", "utf-32">>

----------------------------------------------------------------------------
\* The position of a name in the candidate list, 0 when it is not in it.
CandidateIndex(enc) ==
    IF \E k \in 1..Len(unique_encodings) : unique_encodings[k] = enc
    THEN CHOOSE k \in 1..Len(unique_encodings) : unique_encodings[k] = enc
    ELSE 0

\* C23: the candidates are attempted strictly in list order; when the call
\* returns the text of a candidate, it is the text that candidate decodes,
\* every candidate before it was attempted and failed, and no candidate after
\* it was attempted.
C23_FirstSuccess ==
    /\ rpc \in {"try", "done"} =>
        /\ Len(attempts) <= Len(unique_encodings)
        /\ attempts = SubSeq(unique_encodings, 1, Len(attempts))
    /\ rpc = "done" /\ ret.outcome = "return" /\ CandidateIndex(ret.via) > 0 =>
        LET k == CandidateIndex(ret.via)
        IN  /\ attempts = SubSeq(unique_encodings, 1, k)
            /\ \A j \in 1..(k - 1) : ~Decode(unique_encodings[j], file_bytes).ok
            /\ Decode(ret.via, file_bytes).ok
            /\ ret.text = Decode(ret.via, file_bytes).text

\* A read that ended with the fourth candidate after three failures, with
\* four candidates left untried.
C23_Witness ==
    /\ rpc = "done"
    /\ ret.outcome = "return"
    /\ CandidateIndex(ret.via) = 4
    /\ Len(attempts) = 4
    /\ Len(unique_encodings) = 8

----------------------------------------------------------------------------
\* Specification of find_markdown_file and extract_json_from_text, each
\* called once on its own argument.

\* Arguments of find_markdown_file: directories (relative and absolute), a
\* file, a missing directory and the empty string.
DirectoryPool ==
    {<<"lab">>, LabDir, SentinelDir, <<"nodir">>, <<"lab", "doc.md">>, <<>>}

\* Arguments of extract_json_from_text.
TextInputs == {fi \in InputPool : IsStr(fi)}

InitHelpers ==
    /\ dirs = {Root, Cwd, LabDir, SentinelDir}
    /\ \E lab \in LabListings :
        listing = [dir \in DirUniverse |->
                      IF dir = LabDir THEN lab
                      ELSE IF dir = SentinelDir THEN <<"doc.md">>
                      ELSE <<>>]
    /\ doc = <<LA>>
    /\ find_directory \in DirectoryPool
    /\ find_result = NonePath
    /\ json_text \in TextInputs
    /\ json_result = NoObject
    /\ hpc = [find |-> "call", extract |-> "call"]
    /\ dirs_before = dirs
    /\ file_input = NoInput
    /\ base_dir = NonePath
    /\ paper_dir = NonePath
    /\ fallback = "none"
    /\ response = NoResponse
    /\ ipc = "idle"
    /\ IdleOrganize
    /\ IdlePipeline
    /\ IdleRead
    /\ IdleConcurrent

\* find_markdown_file(find_directory)
FindMarkdown ==
    /\ hpc.find = "call"
    /\ find_result' = FindMarkdownFile(dirs, listing, find_directory)
    /\ hpc' = [hpc EXCEPT !.find = "done"]
    /\ UNCHANGED <<find_directory, json_text, json_result, varsOrganize, varsPipeline,
                   varsRead, varsInput, varsConcurrent>>

\* extract_json_from_text(json_text)
ExtractJson ==
    /\ hpc.extract = "call"
    /\ json_result' = ExtractJsonFromText(json_text)
    /\ hpc' = [hpc EXCEPT !.extract = "done"]
    /\ UNCHANGED <<find_directory, find_result, json_text, varsOrganize, varsPipeline,
                   varsRead, varsInput, varsConcurrent>>

NextHelpers == FindMarkdown \/ ExtractJson

SpecHelpers == InitHelpers /\ [][NextHelpers]_vars

\* The entries of the directory given to find_markdown_file, and the
\* positions of those whose name ends in ".md".
EntriesListed ==
    IF find_directory # <<>> /\ AbsPath(find_directory) \in dirs
    THEN listing[AbsPath(find_directory)]
    ELSE <<>>

MarkdownEntries ==
    {k \in 1..Len(EntriesListed) : EndsWith(NameText(EntriesListed[k]), DotMd)}

\* C24: find_markdown_file returns the path, under the directory as given,
\* of the first entry in listing order whose name ends in .md; it returns
\* None when the path is not a directory or no entry ends in .md.
C24_FirstMarkdown ==
    hpc.find = "done" =>
        IF find_directory = <<>> \/ AbsPath(find_directory) \notin dirs
              \/ MarkdownEntries = {}
        THEN find_result = NonePath
        ELSE \E k \in MarkdownEntries :
                /\ \A j \in 1..(k - 1) : j \notin MarkdownEntries
                /\ find_result = find_directory \o <<EntriesListed[k]>>

\* A directory listing other.md before doc.md: other.md is returned.
C24_Witness ==
    /\ hpc.find = "done"
    /\ find_directory = <<"lab">>
    /\ listing[LabDir] = <<"other.md", "doc.md">>
    /\ find_result = <<"lab", "other.md">>

\* C25: extract_json_from_text never returns an object that lacks the key
\* paper_path, whether the object stands in a fenced block or in prose.
C25_OnlyWithPaperPath ==
    hpc.extract = "done" /\ json_result.found => json_result.payload = "paper_path"

----------------------------------------------------------------------------
\* The open() calls of a finished read of a readable file: one for the
\* header, one for the detection unless the file is a PDF or the detector
\* cannot be imported, one per candidate attempted and one for the read with
\* substitution.
OpensExpected ==
    1 + (IF ret.via = "pdf" \/ chardet.kind \in {"none", "ImportError"} THEN 0 ELSE 1)
      + Len(attempts)
      + (IF ret.via = "utf-8-replace" THEN 1 ELSE 0)

\* C26 as stated: a finished read of a readable file has opened
\* the file exactly once and holds no open handle.
C26_SingleAcquisition ==
    rpc = "done" /\ file_state = "readable" => opens = 1 /\ open_handles = 0

\* C26: every open() of read_file_content is scoped by a with block, so no
\* handle is open between the steps or after the call, whether a block is
\* left normally, by the return of the PDF notice, by a failing detection or
\* by a decode error; but the file is opened once for its header, once more
\* for the detection and once per candidate attempted, and is not opened at
\* all when it is missing or cannot be opened.
C26_ScopedOpens ==
    /\ open_handles = 0
    /\ rpc = "done" /\ file_state = "readable" => opens = OpensExpected
    /\ rpc = "done" /\ file_state # "readable" => opens = 0

\* A read that opened the file five times: header, detection that raised,
\* two candidates that did not decode and the one that did.
C26_Witness ==
    /\ rpc = "done"
    /\ chardet.kind = "Exception"
    /\ Len(attempts) = 3
    /\ last_error # None
    /\ opens = 5
    /\ open_handles = 0

----------------------------------------------------------------------------
\* C27: the depth-first pre-order traversal of the tree built so far visits
\* the sections processed so far in their input order, each exactly once;
\* for the returned tree these are all the input sections.
C27_PreOrderIsInputOrder ==
    /\ TreePreOrder(BuiltTree) = [k \in 1..pos |-> k]
    /\ opc = "done" => Len(TreePreOrder(BuiltTree)) = Len(sections)

\* A returned tree of two roots, the first with two subsections.
C27_Witness ==
    /\ opc = "done"
    /\ Levels(sections) = <<1, 2, 2, 1>>
    /\ result = <<1, 4>>
    /\ subsections[1] = <<2, 3>>
    /\ TreePreOrder(BuiltTree) = <<1, 2, 3, 4>>

----------------------------------------------------------------------------
\* C28: a read of a readable file returns a text decoded by a candidate at
\* or before latin1 in the list: the read with substitution is never
\* reached, and the text is decoded as cp1252, ascii, utf-16 or utf-32 only
\* when that name is the accepted detected encoding.
C28_Latin1Backstop ==
    rpc = "done" /\ file_state = "readable" /\ ret.via # "pdf" =>
        /\ ret.outcome = "return"
        /\ ret.via # "utf-8-replace"
        /\ CandidateIndex("latin1") > 0
        /\ CandidateIndex(ret.via) > 0
        /\ CandidateIndex(ret.via) <= CandidateIndex("latin1")
        /\ ret.via \in {"cp1252", "ascii", "utf-16", "utf-32"} => ret.via = detected_encoding

\* Bytes that neither the accepted detected encoding nor utf-8 nor utf-8-sig
\* decode: latin1, the fourth candidate, returns the text.
C28_Witness ==
    /\ rpc = "done"
    /\ detected_encoding # None
    /\ attempts = <<detected_encoding, "utf-8", "utf-8-sig", "latin1">>
    /\ ret.via = "latin1"
    /\ ret.outcome = "return"

----------------------------------------------------------------------------
\* C29: a call that ends by raising ValueError leaves the directories of the
\* file system as they were when it was made; with base_dir given, none was
\* created under base_dir.
C29_FailureLeavesNoTrace ==
    ipc = "done" /\ response.status = "ValueError" => dirs = dirs_before

----------------------------------------------------------------------------
\* C30: after each iteration of the loop in _organize_sections the stack is
\* not empty, its levels increase strictly from bottom to top, each entry is
\* listed in the subsections of the entry below it, the bottom entry is the
\* root added last, the top entry is the section just processed, and the
\* stack holds at most 6 sections.
C30_StackOfAncestors ==
    pos >= 1 =>
        /\ section_stack # <<>>
        /\ \A i \in 1..(Len(section_stack) - 1) :
            /\ sections[section_stack[i]].level < sections[section_stack[i + 1]].level
            /\ section_stack[i + 1] \in Range(subsections[section_stack[i]])
        /\ section_stack[1] = Last(result)
        /\ Last(section_stack) = pos
        /\ Len(section_stack) <= 6

\* The six levels nested one under the other: the stack holds six sections.
C30_Witness ==
    /\ pos = 6
    /\ Levels(sections) = <<1, 2, 3, 4, 5, 6, 3>>
    /\ section_stack = <<1, 2, 3, 4, 5, 6>>

====
